---- MODULE Spec2Model ----
(***************************************************************************)
(* Model of dbl-utils' reference resolver (src/src/resolve-refs.ts) and    *)
(* of the collaborators it calls: deepMerge (object-mutation) and          *)
(* unflatten (flat.ts).                                                    *)
(*                                                                         *)
(* JavaScript objects and arrays are mutable and have identity, and the    *)
(* resolver mutates them in place (delete item.ref, deepMerge's target,    *)
(* schema[itemName] = item).  The model therefore evaluates the resolver   *)
(* over an explicit heap: a sequence of cells addressed by their index.    *)
(* A JavaScript string is the sequence of its characters.                  *)
(*                                                                         *)
(* The module also models the EventHandler (src/src/event-handler.ts),     *)
(* the FetchQueue (src/src/fetch-queue.ts) and deepMerge's one-shot        *)
(* configuration, each under a specification of its own: HandlerSpec,      *)
(* QueueSpec and MergeSpec.  Spec is the resolver's.                       *)
(***************************************************************************)
EXTENDS Integers, Sequences, FiniteSets, Bags, TLC

(***************************************************************************)
(* Bounds of the model.                                                    *)
(***************************************************************************)
\* Deepest nesting of calls of loop the model follows (the engine's call
\* stack is finite as well: beyond it a RangeError is thrown).
MaxDepth == 24
\* Passes of the deferred-block while loop the model follows when the loop
\* state does not repeat.
MaxPasses == 6
\* Longest chain of references the generated inputs contain.
MaxChain == 3

(***************************************************************************)
(* Values.  A scalar is a tagged record; an object or an array is a        *)
(* pointer into the heap.                                                  *)
(***************************************************************************)
Undef == [t |-> "undef"]
Null == [t |-> "null"]
Num(n) == [t |-> "num", n |-> n]
Bool(b) == [t |-> "bool", b |-> b]
Str(s) == [t |-> "str", s |-> s]
Ptr(a) == [t |-> "ptr", a |-> a]
\* A built-in function, such as a constructor, with its name.
Fun(name) == [t |-> "fun", s |-> name]
\* JSON has no text for undefined or for a function.
NoJson(v) == v.t \in {"undef", "fun"}

\* Heap cells and the trees a caller passes in or gets back.
ObjCell(ks, vs) == [t |-> "obj", k |-> ks, v |-> vs]
ArrCell(es) == [t |-> "arr", e |-> es]
EmptyObj == ObjCell(<<>>, <<>>)

IsStr(v) == v.t = "str"
IsPtr(v) == v.t = "ptr"
IsObjAt(h, v) == IsPtr(v) /\ h[v.a].t = "obj"
IsArrAt(h, v) == IsPtr(v) /\ h[v.a].t = "arr"

\* JavaScript truthiness (ToBoolean).
Truthy(v) ==
  CASE v.t = "undef" -> FALSE
    [] v.t = "null" -> FALSE
    [] v.t = "bool" -> v.b
    [] v.t = "num" -> v.n # 0
    [] v.t = "str" -> v.s # <<>>
    [] OTHER -> TRUE

(***************************************************************************)
(* Strings.                                                                *)
(***************************************************************************)
Digits == <<"0", "1", "2", "3", "4", "5", "6", "7", "8", "9">>
IsDigit(c) == \E i \in 1..10 : Digits[i] = c
DigitVal(c) == (CHOOSE i \in 1..10 : Digits[i] = c) - 1

\* /^\d+$/.test(s)
IsInteger(s) == Len(s) > 0 /\ \A i \in 1..Len(s) : IsDigit(s[i])

\* parseInt(s, 10) of a string of digits.
RECURSIVE ParseInt(_)
ParseInt(s) ==
  IF s = <<>> THEN 0
  ELSE ParseInt(SubSeq(s, 1, Len(s) - 1)) * 10 + DigitVal(s[Len(s)])

\* String(n) of a natural number.
RECURSIVE NumToStr(_)
NumToStr(n) ==
  IF n < 10 THEN <<Digits[n + 1]>>
  ELSE NumToStr(n \div 10) \o <<Digits[(n % 10) + 1]>>

\* A canonical array index: the decimal form of a natural number.
IsIndex(s) == IsInteger(s) /\ (Len(s) = 1 \/ s[1] # "0")

StartsWith(s, p) == Len(s) >= Len(p) /\ SubSeq(s, 1, Len(p)) = p

\* s.substring(n)
Substring(s, n) == SubSeq(s, n + 1, Len(s))

\* First position >= i of character c in s, or 0.
RECURSIVE IndexFrom(_, _, _)
IndexFrom(s, c, i) ==
  IF i > Len(s) THEN 0
  ELSE IF s[i] = c THEN i
  ELSE IndexFrom(s, c, i + 1)

\* s.split(c) for a one-character separator.
RECURSIVE Split(_, _)
Split(s, c) ==
  LET j == IndexFrom(s, c, 1)
  IN IF j = 0 THEN <<s>>
     ELSE <<SubSeq(s, 1, j - 1)>> \o Split(SubSeq(s, j + 1, Len(s)), c)

\* s.includes('${')
IncludesDollarBrace(s) ==
  \E i \in 1..(Len(s) - 1) : s[i] = "$" /\ s[i + 1] = "{"

RECURSIVE ConcatAll(_)
ConcatAll(ss) ==
  IF ss = <<>> THEN <<>> ELSE Head(ss) \o ConcatAll(Tail(ss))

\* Array.prototype.join over strings.
RECURSIVE JoinStrs(_, _)
JoinStrs(ss, sep) ==
  IF ss = <<>> THEN <<>>
  ELSE IF Len(ss) = 1 THEN ss[1]
  ELSE ss[1] \o sep \o JoinStrs(Tail(ss), sep)

\* The text of the keywords and property names the code uses.
RefKey == <<"r", "e", "f">>
DotKey == <<".">>
LengthKey == <<"l", "e", "n", "g", "t", "h">>
ConstructorKey == <<"c", "o", "n", "s", "t", "r", "u", "c", "t", "o", "r">>
NameKey == <<"n", "a", "m", "e">>
SObject == <<"O", "b", "j", "e", "c", "t">>
SArray == <<"A", "r", "r", "a", "y">>
SString == <<"S", "t", "r", "i", "n", "g">>
SNumber == <<"N", "u", "m", "b", "e", "r">>
SBoolean == <<"B", "o", "o", "l", "e", "a", "n">>
SFunction == <<"F", "u", "n", "c", "t", "i", "o", "n">>
SNull == <<"n", "u", "l", "l">>
STrue == <<"t", "r", "u", "e">>
SFalse == <<"f", "a", "l", "s", "e">>
SUndefined == <<"u", "n", "d", "e", "f", "i", "n", "e", "d">>
SObjectObject ==
  <<"[", "o", "b", "j", "e", "c", "t", " ", "O", "b", "j", "e", "c", "t", "]">>

(***************************************************************************)
(* Objects: own properties in the order Object.keys lists them, which is   *)
(* the integer-like keys in ascending order, then the other keys in        *)
(* insertion order.                                                        *)
(***************************************************************************)
KeyPos(cell, key) ==
  IF \E i \in 1..Len(cell.k) : cell.k[i] = key
  THEN CHOOSE i \in 1..Len(cell.k) : cell.k[i] = key
  ELSE 0

InsertAt(s, p, x) == SubSeq(s, 1, p - 1) \o <<x>> \o SubSeq(s, p, Len(s))
RemoveAt(s, p) == SubSeq(s, 1, p - 1) \o SubSeq(s, p + 1, Len(s))

\* Where a new key goes among the keys of an object.
NewKeyPos(ks, key) ==
  IF IsIndex(key)
  THEN 1 + Cardinality({i \in 1..Len(ks) :
                          IsIndex(ks[i]) /\ ParseInt(ks[i]) < ParseInt(key)})
  ELSE Len(ks) + 1

\* cell[key] = val on an object cell: at position p when the key is there
\* (p # 0), else as a new key.
ObjPutCell(cell, key, val, p, q) ==
  IF p # 0 THEN [cell EXCEPT !.v[p] = val]
  ELSE ObjCell(InsertAt(cell.k, q, key), InsertAt(cell.v, q, val))

ObjSetCell(cell, key, val) ==
  ObjPutCell(cell, key, val, KeyPos(cell, key), NewKeyPos(cell.k, key))

\* delete cell[key]
ObjDelCell(cell, key) ==
  LET p == KeyPos(cell, key)
  IN IF p = 0 THEN cell ELSE ObjCell(RemoveAt(cell.k, p), RemoveAt(cell.v, p))

ObjGetCell(cell, key) ==
  LET p == KeyPos(cell, key) IN IF p = 0 THEN Undef ELSE cell.v[p]

\* arr[n] = val: the holes an index beyond the end leaves read as undefined.
RECURSIVE Holes(_)
Holes(n) == IF n <= 0 THEN <<>> ELSE <<Undef>> \o Holes(n - 1)

ArrSetCell(cell, n, val) ==
  IF n < Len(cell.e) THEN [cell EXCEPT !.e[n + 1] = val]
  ELSE ArrCell(cell.e \o Holes(n - Len(cell.e)) \o <<val>>)

(***************************************************************************)
(* The heap.                                                               *)
(***************************************************************************)
\* A new cell: the heap with it, and its address.
Alloc(h, cell) == [h |-> Append(h, cell), v |-> Ptr(Len(h) + 1)]

\* obj[key] = val for a pointer obj to an object.
HeapSet(h, obj, key, val) == [h EXCEPT ![obj.a] = ObjSetCell(h[obj.a], key, val)]
HeapDel(h, obj, key) == [h EXCEPT ![obj.a] = ObjDelCell(h[obj.a], key)]

\* v[key] may be read without a TypeError.
CanGet(v) == v.t \notin {"undef", "null"}

\* elems[n] for a sequence of elements, counted from 0.
ElemAt(elems, n) == IF n < Len(elems) THEN elems[n + 1] ELSE Undef

\* The property key of an array or of a string: its length or an element.
SeqProp(elems, key) ==
  IF key = LengthKey THEN Num(Len(elems))
  ELSE IF IsIndex(key) THEN ElemAt(elems, ParseInt(key))
  ELSE Undef

\* A property v has of its own: a member of a mapping, the length or an
\* element of an array or of a string, the name of a function.
OwnProp(h, v, key) ==
  CASE IsObjAt(h, v) -> ObjGetCell(h[v.a], key)
    [] IsArrAt(h, v) -> SeqProp(h[v.a].e, key)
    [] IsStr(v) -> SeqProp([i \in 1..Len(v.s) |-> Str(<<v.s[i]>>)], key)
    [] v.t = "fun" /\ key = NameKey -> Str(v.s)
    [] OTHER -> Undef

\* The name of the constructor every value inherits from its prototype.
\* Of the inherited properties the model keeps this one.
ConstructorName(h, v) ==
  CASE IsObjAt(h, v) -> SObject
    [] IsArrAt(h, v) -> SArray
    [] v.t = "str" -> SString
    [] v.t = "num" -> SNumber
    [] v.t = "bool" -> SBoolean
    [] OTHER -> SFunction

\* own is v[key] unless v[key] is inherited.
OrInherited(h, v, key, own) ==
  IF own.t = "undef" /\ key = ConstructorKey THEN Fun(ConstructorName(h, v)) ELSE own

\* v[key] for any value that is not undefined or null.
GetProp(h, v, key) == OrInherited(h, v, key, OwnProp(h, v, key))

\* keys.reduce((obj, key) => obj[key], root): x = "throw" is the TypeError
\* of reading a property of undefined or null.
RECURSIVE PathReduce(_, _, _)
PathReduce(h, root, keys) ==
  IF keys = <<>> THEN [x |-> "ok", v |-> root]
  ELSE IF ~CanGet(root) THEN [x |-> "throw", v |-> Undef]
  ELSE PathReduce(h, GetProp(h, root, Head(keys)), Tail(keys))

(***************************************************************************)
(* Trees: the values a caller holds, and JSON.                             *)
(***************************************************************************)
\* The tree a heap value stands for.
RECURSIVE Reify(_, _)
Reify(h, v) ==
  IF ~IsPtr(v) THEN v
  ELSE LET c == h[v.a]
       IN IF c.t = "obj"
          THEN ObjCell(c.k, [i \in 1..Len(c.v) |-> Reify(h, c.v[i])])
          ELSE ArrCell([i \in 1..Len(c.e) |-> Reify(h, c.e[i])])

\* A tree laid out in fresh cells: Cells(tree, base) are the cells of a
\* mapping or a sequence, those of its members first and its own last, for
\* a heap that holds base cells already.
RECURSIVE Size(_)
RECURSIVE SizeSum(_, _)
Size(tree) ==
  IF tree.t = "obj" THEN 1 + SizeSum(tree.v, Len(tree.v))
  ELSE IF tree.t = "arr" THEN 1 + SizeSum(tree.e, Len(tree.e))
  ELSE 0
\* The cells of the first n of trees.
SizeSum(trees, n) == IF n = 0 THEN 0 ELSE SizeSum(trees, n - 1) + Size(trees[n])

RECURSIVE Cells(_, _)
Cells(tree, base) ==
  LET members == IF tree.t = "obj" THEN tree.v ELSE tree.e
      at(i) == base + SizeSum(members, i - 1)
      vals == [i \in 1..Len(members) |->
                 IF members[i].t \in {"obj", "arr"}
                 THEN Ptr(at(i) + Size(members[i]))
                 ELSE members[i]]
      below == ConcatAll([i \in 1..Len(members) |->
                            IF members[i].t \in {"obj", "arr"}
                            THEN Cells(members[i], at(i))
                            ELSE <<>>])
  IN below \o <<IF tree.t = "obj" THEN ObjCell(tree.k, vals) ELSE ArrCell(vals)>>

Build(h, tree) ==
  IF tree.t \in {"obj", "arr"}
  THEN [h |-> h \o Cells(tree, Len(h)), v |-> Ptr(Len(h) + Size(tree))]
  ELSE [h |-> h, v |-> tree]

\* What JSON keeps of a tree: an undefined property is dropped, an
\* undefined element becomes null.
RECURSIVE Jsonify(_)
Jsonify(tree) ==
  IF tree.t = "obj"
  THEN LET keep == SelectSeq([i \in 1..Len(tree.k) |-> i],
                             LAMBDA i : ~NoJson(tree.v[i]))
       IN ObjCell([j \in 1..Len(keep) |-> tree.k[keep[j]]],
                  [j \in 1..Len(keep) |-> Jsonify(tree.v[keep[j]])])
  ELSE IF tree.t = "arr"
  THEN ArrCell([i \in 1..Len(tree.e) |->
                  IF NoJson(tree.e[i]) THEN Null ELSE Jsonify(tree.e[i])])
  ELSE tree

\* A string literal of JSON text.
RECURSIVE Escape(_)
Escape(s) ==
  IF s = <<>> THEN <<>>
  ELSE (IF Head(s) \in {"\"", "\\"} THEN <<"\\", Head(s)>> ELSE <<Head(s)>>)
       \o Escape(Tail(s))

Quote(s) == <<"\"">> \o Escape(s) \o <<"\"">>

\* JSON.stringify(tree) for a tree that is not undefined.
RECURSIVE StringifyTree(_)
StringifyTree(tree) ==
  CASE tree.t = "null" -> SNull
    [] NoJson(tree) -> SNull
    [] tree.t = "bool" -> IF tree.b THEN STrue ELSE SFalse
    [] tree.t = "num" -> NumToStr(tree.n)
    [] tree.t = "str" -> Quote(tree.s)
    [] tree.t = "arr" ->
         <<"[">> \o JoinStrs([i \in 1..Len(tree.e) |-> StringifyTree(tree.e[i])],
                             <<",">>) \o <<"]">>
    [] OTHER ->
         LET j == Jsonify(tree)
         IN <<"{">> \o JoinStrs([i \in 1..Len(j.k) |->
                                   Quote(j.k[i]) \o <<":">> \o StringifyTree(j.v[i])],
                                <<",">>) \o <<"}">>

\* JSON.stringify(v): undefined for undefined and for a function, else the
\* JSON text.
Stringify(h, v) ==
  IF NoJson(v) THEN Undef ELSE Str(StringifyTree(Reify(h, v)))

\* JSON.parse(JSON.stringify(v)): a SyntaxError for undefined, which is
\* also what a function is stringified to (the text
\* "undefined" is not JSON), else a structural copy in fresh cells.
JSONClone(h, v) ==
  LET parsed(r) == [x |-> "ok", h |-> r.h, v |-> r.v]
  IN IF NoJson(v) THEN [x |-> "throw", h |-> h, v |-> Undef]
     ELSE parsed(Build(h, Jsonify(Reify(h, v))))

(***************************************************************************)
(* deepMerge (object-mutation).  No fixer is configured while the resolver *)
(* runs, so the fixer branch of effectiveDeepMerge is not taken.           *)
(***************************************************************************)
\* isObject(item): a mapping, neither null nor an array.
IsObject(h, v) == IsObjAt(h, v)

RECURSIVE MergeKeys(_, _, _, _)

\* if (isObject(target[key]) && isObject(source[key])) recurse
MergeNested(h, tv, sv) ==
  IF IsObject(h, tv) /\ IsObject(h, sv) THEN MergeKeys(h, tv, sv, h[sv.a].k) ELSE h

\* if (!target[key]) target[key] = {}, with the fresh mapping given
MergeSlot(h, target, key, fresh) ==
  IF ~Truthy(GetProp(h, target, key)) THEN HeapSet(fresh.h, target, key, fresh.v) ELSE h

\* One key of the source: a mapping is merged into the target's slot, any
\* other defined value is assigned.
MergeKey(h, target, key, sv, slot) ==
  IF IsObject(h, sv) THEN MergeNested(slot, GetProp(slot, target, key), sv)
  ELSE IF sv.t # "undef" THEN HeapSet(h, target, key, sv)
  ELSE h

\* The body of effectiveDeepMerge for one source: the heap after the keys of
\* source are merged into target, in place.
MergeKeys(h, target, source, keys) ==
  IF keys = <<>> THEN h
  ELSE MergeKeys(MergeKey(h, target, Head(keys), GetProp(h, source, Head(keys)),
                          MergeSlot(h, target, Head(keys), Alloc(h, EmptyObj))),
                 target, source, Tail(keys))

\* effectiveDeepMerge(target, ...sources): the heap after the merge; the
\* value returned is target.
RECURSIVE EffectiveDeepMerge(_, _, _)
EffectiveDeepMerge(h, target, sources) ==
  IF sources = <<>> THEN h
  ELSE EffectiveDeepMerge(MergeNested(h, target, Head(sources)), target, Tail(sources))

\* deepMerge(target, ...sources)
DeepMerge(h, target, sources) ==
  [h |-> EffectiveDeepMerge(h, target, sources), v |-> target]

(***************************************************************************)
(* unflatten (flat.ts).                                                    *)
(***************************************************************************)
\* The property name realKey stands for: parseInt(key, 10) for a key of
\* digits, else the key.
RealKey(key) == IF IsInteger(key) THEN NumToStr(ParseInt(key)) ELSE key

\* current[realKey] = val.  Assigning to a property of a primitive (or of
\* null) is a TypeError in the module's strict code.  A named property of
\* an array is not kept by the model.
SetAny(h, current, key, val) ==
  IF IsObjAt(h, current)
  THEN [x |-> "ok", h |-> HeapSet(h, current, RealKey(key), val)]
  ELSE IF IsArrAt(h, current)
  THEN [x |-> "ok",
        h |-> IF IsInteger(key)
              THEN [h EXCEPT ![current.a] = ArrSetCell(h[current.a], ParseInt(key), val)]
              ELSE h]
  ELSE [x |-> "throw", h |-> h]

RECURSIVE UnflattenKey(_, _, _, _)

\* current = current[realKey] after the assignment of a fresh container.
UnflattenSet(current, keys, value, set) ==
  IF set.x # "ok" THEN set
  ELSE UnflattenKey(set.h, GetProp(set.h, current, RealKey(Head(keys))),
                    Tail(keys), value)

\* if (current[realKey] === undefined) current[realKey] = nextIsIndex ? [] : {}
UnflattenStep(h, current, keys, value, next, fresh) ==
  IF next.t = "undef"
  THEN UnflattenSet(current, keys, value, SetAny(fresh.h, current, Head(keys), fresh.v))
  ELSE UnflattenKey(h, next, Tail(keys), value)

\* The inner for loop of unflatten for one flat key.
UnflattenKey(h, current, keys, value) ==
  IF Len(keys) = 1 THEN SetAny(h, current, Head(keys), value)
  ELSE IF ~CanGet(current) THEN [x |-> "throw", h |-> h]
  ELSE UnflattenStep(h, current, keys, value,
                     GetProp(h, current, RealKey(Head(keys))),
                     Alloc(h, IF IsInteger(keys[2]) THEN ArrCell(<<>>) ELSE EmptyObj))

\* The outer for loop of unflatten.
RECURSIVE UnflattenKeys(_, _, _, _, _)

UnflattenNext(r, result, object, flatKeys, delimiter) ==
  IF r.x # "ok" THEN [x |-> "throw", h |-> r.h, v |-> Undef]
  ELSE UnflattenKeys(r.h, result, object, Tail(flatKeys), delimiter)

UnflattenKeys(h, result, object, flatKeys, delimiter) ==
  IF flatKeys = <<>> THEN [x |-> "ok", h |-> h, v |-> result]
  ELSE UnflattenNext(UnflattenKey(h, result, Split(Head(flatKeys), delimiter),
                                  GetProp(h, object, Head(flatKeys))),
                     result, object, flatKeys, delimiter)

\* The keys Object.keys gives for a mapping or a sequence.
OwnKeys(h, object) ==
  IF IsObjAt(h, object) THEN h[object.a].k
  ELSE [i \in 1..Len(h[object.a].e) |-> NumToStr(i - 1)]

UnflattenInto(result, object, flatKeys, delimiter) ==
  UnflattenKeys(result.h, result.v, object, flatKeys, delimiter)

\* unflatten(object, delimiter)
Unflatten(h, object, delimiter) ==
  IF ~IsPtr(object) THEN [x |-> "throw", h |-> h, v |-> Undef]
  ELSE UnflattenInto(Alloc(h, EmptyObj), object, OwnKeys(h, object), delimiter)

(***************************************************************************)
(* Results of evaluating a piece of the resolver: x is "ok" (v is the      *)
(* value returned), "throw" (an exception is propagating), "loop" (the     *)
(* code never returns) or "bound" (the model's bounds were reached); h is  *)
(* the heap afterwards in every case.                                      *)
(***************************************************************************)
Ok(h, v) == [x |-> "ok", h |-> h, v |-> v]
Thrown(h) == [x |-> "throw", h |-> h, v |-> Undef]
Stuck(h) == [x |-> "loop", h |-> h, v |-> Undef]
OutOfBounds(h) == [x |-> "bound", h |-> h, v |-> Undef]

\* A fresh cell and the pointer to it.
Created(h, cell) == Ok(Append(h, cell), Ptr(Len(h) + 1))

\* try { r } catch { return fallback }
Catch(r, fallback) == IF r.x = "throw" THEN Ok(r.h, fallback) ELSE r

(***************************************************************************)
(* Coercions the tasks rely on.                                            *)
(***************************************************************************)
\* String(v), and Array.prototype.join, which it uses for arrays.
RECURSIVE ToStr(_, _)
RECURSIVE JoinArr(_, _, _)
ToStr(h, v) ==
  CASE v.t = "str" -> v.s
    [] v.t = "num" -> NumToStr(v.n)
    [] v.t = "bool" -> IF v.b THEN STrue ELSE SFalse
    [] v.t = "null" -> SNull
    [] v.t = "undef" -> SUndefined
    [] v.t = "fun" -> <<"f", "u", "n", "c", "t", "i", "o", "n", " ">> \o v.s
                        \o <<"(", ")", " ", "{", " ", "[", "n", "a", "t", "i", "v",
                              "e", " ", "c", "o", "d", "e", "]", " ", "}">>
    [] IsArrAt(h, v) -> JoinArr(h, h[v.a].e, <<",">>)
    [] OTHER -> SObjectObject

JoinArr(h, elems, sep) ==
  JoinStrs([i \in 1..Len(elems) |->
              IF elems[i].t \in {"undef", "null"} THEN <<>> ELSE ToStr(h, elems[i])],
           sep)

\* obj[key] = val for any obj.  A named property of an array is not kept by
\* the model; assigning to a property of a primitive is a TypeError.
SetProp(h, obj, key, val) ==
  IF IsObjAt(h, obj) THEN [x |-> "ok", h |-> HeapSet(h, obj, key, val)]
  ELSE IF IsArrAt(h, obj)
  THEN [x |-> "ok",
        h |-> IF IsIndex(key)
              THEN [h EXCEPT ![obj.a] = ArrSetCell(h[obj.a], ParseInt(key), val)]
              ELSE h]
  ELSE [x |-> "throw", h |-> h]

\* delete obj[key]
DelProp(h, obj, key) ==
  IF IsObjAt(h, obj) THEN HeapDel(h, obj, key)
  ELSE IF IsArrAt(h, obj) /\ IsIndex(key) /\ ParseInt(key) < Len(h[obj.a].e)
  THEN [h EXCEPT ![obj.a].e[ParseInt(key) + 1] = Undef]
  ELSE h

\* The elements as they are, those that are arrays left nested.
NestedElems(h, elems) == elems

\* array.flat(): the elements, with those of an element that is an array
\* spliced in its place.
RECURSIVE FlatElems(_, _)
FlatElems(h, elems) ==
  IF elems = <<>> THEN <<>>
  ELSE (IF IsArrAt(h, Head(elems)) THEN h[Head(elems).a].e ELSE <<Head(elems)>>)
       \o FlatElems(h, Tail(elems))

(***************************************************************************)
(* The pattern /\$\{([^}]+?)\}/g.                                          *)
(***************************************************************************)
\* The position of the closing brace of the match that starts at i, or 0
\* when no match starts there.
MatchEnd(s, i) ==
  IF i + 1 <= Len(s) /\ s[i] = "$" /\ s[i + 1] = "{"
  THEN LET j == IndexFrom(s, "}", i + 2)
       IN IF j >= i + 3 THEN j ELSE 0
  ELSE 0

\* The start of the first match at or after position i, or 0.
RECURSIVE NextMatch(_, _)
NextMatch(s, i) ==
  IF i > Len(s) THEN 0
  ELSE IF MatchEnd(s, i) # 0 THEN i
  ELSE NextMatch(s, i + 1)

(***************************************************************************)
(* resolveRefs.  E is the closure's environment: the schema and the rules  *)
(* (values of the heap).  d is the call depth left.                        *)
(***************************************************************************)
TaskIterate == <<"i", "t", "e", "r", "a", "t", "e">>
TaskJoin == <<"j", "o", "i", "n">>
TaskIgnore == <<"i", "g", "n", "o", "r", "e">>
TaskIf == <<"i", "f">>

\* item[0] === '$' && item[1] !== '{'
IsDollarRef(s) == Len(s) >= 1 /\ s[1] = "$" /\ (Len(s) < 2 \/ s[2] # "{")

\* attrs[i] of a task call: undefined beyond the arguments given.
Arg(attrs, i) == IF i <= Len(attrs) THEN attrs[i] ELSE Undef

\* The (mergedObject, processedRelativeRefs) state of the while loop, with
\* the schema and the rules a pass reads.
PassState(h, E, merged, processed) ==
  <<Reify(h, merged), Reify(h, processed), Reify(h, E.schema), Reify(h, E.rules)>>

RECURSIVE Loop(_, _, _, _, _, _)
RECURSIVE LoopMap(_, _, _, _, _, _, _, _)
RECURSIVE LoopInner(_, _, _, _, _, _, _, _)
RECURSIVE LoopMembers(_, _, _, _, _, _, _, _)
RECURSIVE LoopExpand(_, _, _, _, _, _)
RECURSIVE LoopPasses(_, _, _, _, _, _, _)
RECURSIVE LoopDollar(_, _, _, _, _, _)
RECURSIVE LoopReplace(_, _, _, _, _, _, _, _)
RECURSIVE ProcessRules(_, _, _, _)
RECURSIVE IterateMap(_, _, _, _, _, _, _, _)

\* item.map(a => loop(a, currentContext, skipRelativeRefs)), from element i
\* on; acc holds the results so far.  v is the sequence of results.
LoopMap(h, E, arr, i, acc, ctx, skip, d) ==
  LET next(r) ==
        IF r.x # "ok" THEN r
        ELSE LoopMap(r.h, E, arr, i + 1, Append(acc, r.v), ctx, skip, d)
  IN IF i > Len(h[arr.a].e) THEN Ok(h, acc)
     ELSE next(Loop(h, E, h[arr.a].e[i], ctx, skip, d))

\* The block of a mapping resolved before any of its siblings is.
LoopInnerSkipped(h, E, item, keys, toReturn, ctx, skip, d) == Ok(h, toReturn)

\* Lines 208-212: every member but "." is resolved into toReturn.
LoopInner(h, E, item, keys, toReturn, ctx, skip, d) ==
  LET next(r) ==
        IF r.x # "ok" THEN r
        ELSE LoopInner(HeapSet(r.h, toReturn, Head(keys), r.v), E, item,
                       Tail(keys), toReturn, ctx, skip, d)
  IN IF keys = <<>> THEN Ok(h, toReturn)
     ELSE IF Head(keys) = DotKey
     THEN LoopInner(h, E, item, Tail(keys), toReturn, ctx, skip, d)
     ELSE next(Loop(h, E, GetProp(h, item, Head(keys)), ctx, skip, d))

\* Lines 204-222: Object.keys(item).forEach over a mapping without ref.
LoopMembers(h, E, item, keys, toReturn, ctx, skip, d) ==
  LET \* line 219
      set(r) ==
        IF r.x # "ok" THEN r
        ELSE LoopMembers(HeapSet(r.h, toReturn, Head(keys), r.v), E, item,
                         Tail(keys), toReturn, ctx, skip, d)
      \* line 215
      merge(relativeRefs) ==
        IF relativeRefs.x # "ok" THEN relativeRefs
        ELSE LoopMembers(EffectiveDeepMerge(relativeRefs.h, toReturn, <<relativeRefs.v>>),
                         E, item, Tail(keys), toReturn, ctx, skip, d)
      \* line 214
      block(inner) ==
        IF inner.x # "ok" THEN inner
        ELSE merge(Loop(inner.h, E, GetProp(inner.h, item, DotKey), toReturn, FALSE, d))
  IN IF keys = <<>> THEN Ok(h, toReturn)
     ELSE IF Head(keys) = DotKey /\ ~skip
     THEN block(LoopInner(h, E, item, h[item.a].k, toReturn, ctx, skip, d))
     ELSE IF ~Truthy(GetProp(h, item, DotKey)) \/ skip
     THEN set(Loop(h, E, GetProp(h, item, Head(keys)), ctx, skip, d))
     ELSE LoopMembers(h, E, item, Tail(keys), toReturn, ctx, skip, d)

\* Lines 192-198: the while loop, before pass n.  prev is the loop state
\* before the previous pass: a pass is a function of that state, so a pass
\* that starts in the state of the one before it, having seen changes,
\* repeats for ever.
LoopPasses(h, E, merged, processed, prev, n, d) ==
  LET \* lines 196-197
      again(here, newProcessed) ==
        IF newProcessed.x # "ok" THEN newProcessed
        ELSE IF Stringify(newProcessed.h, newProcessed.v)
                  # Stringify(newProcessed.h, processed)
        THEN LoopPasses(newProcessed.h, E, merged, newProcessed.v, <<here>>, n + 1, d)
        ELSE Ok(newProcessed.h, newProcessed.v)
      \* lines 194-195
      pass(here) ==
        IF prev = <<here>> THEN Stuck(h)
        ELSE IF n > MaxPasses THEN OutOfBounds(h)
        ELSE again(here, Loop(EffectiveDeepMerge(h, merged, <<processed>>), E,
                              processed, merged, FALSE, d))
  IN pass(PassState(h, E, merged, processed))

\* Lines 160-202: a mapping that carries a ref.
LoopExpand(h, E, item, ctx, skip, d) ==
  LET \* line 199
      finish(merged, processed) ==
        IF processed.x # "ok" THEN processed
        ELSE Ok(EffectiveDeepMerge(processed.h, merged, <<processed.v>>), merged)
      \* lines 191-198
      passes(merged, first) ==
        IF first.x # "ok" THEN first
        ELSE finish(merged, LoopPasses(first.h, E, merged, first.v, <<>>, 1, d))
      \* line 190
      defer(m, relativeRefs) ==
        passes(m.v, Loop(m.h, E, relativeRefs, m.v, FALSE, d))
      into(fresh, sources) == DeepMerge(fresh.h, fresh.v, sources)
      \* lines 181-186
      merge(h2, baseObject, unflattened) ==
        IF IsStr(baseObject)
        THEN into(Alloc(h2, ObjCell(<<RefKey>>, <<baseObject>>)), <<unflattened>>)
        ELSE into(Alloc(h2, EmptyObj), <<baseObject, unflattened>>)
      plain(m) == Ok(m.h, m.v)
      \* lines 173-175: { ...refObj } and delete baseObject['.']
      withBlock(copy, relativeRefs, unflattened) ==
        defer(merge(copy.h, copy.v, unflattened), relativeRefs)
      \* lines 171-178 and 189
      split(refObj, unflattened) ==
        IF refObj.x # "ok" THEN refObj
        ELSE IF IsPtr(refObj.v) /\ Truthy(GetProp(refObj.h, refObj.v, DotKey))
        THEN withBlock(Alloc(refObj.h, ObjDelCell(refObj.h[refObj.v.a], DotKey)),
                       GetProp(refObj.h, refObj.v, DotKey), unflattened)
        ELSE plain(merge(refObj.h, refObj.v, unflattened))
      \* line 165
      template(ref, unflattened) ==
        IF unflattened.x # "ok" THEN unflattened
        ELSE split(Loop(unflattened.h, E, ref, ctx, TRUE, d), unflattened.v)
  IN \* lines 161-163
     template(GetProp(h, item, RefKey), Unflatten(HeapDel(h, item, RefKey), item, "/"))

\* Lines 133-136: data.map(item => { schema[itemName] = item; return
\* loop(itemFound) }), from element i on.
IterateMap(h, E, data, i, acc, itemName, itemFound, d) ==
  LET next(r) ==
        IF r.x # "ok" THEN r
        ELSE IterateMap(r.h, E, data, i + 1, Append(acc, r.v), itemName,
                        itemFound, d)
      bound(set) ==
        IF set.x # "ok" THEN Thrown(set.h)
        ELSE next(Loop(set.h, E, itemFound, Undef, FALSE, d))
  IN IF i > Len(h[data.a].e) THEN Ok(h, acc)
     ELSE bound(SetProp(h, E.schema, itemName, h[data.a].e[i]))

\* Lines 128-139: the iterate task of the rule whose trigger is key.
TaskIterateRun(h, E, key, keyData, itemNameArg, d) ==
  LET \* lines 137-138
      built(itemName, builded) ==
        IF builded.x # "ok" THEN builded
        ELSE Created(DelProp(builded.h, E.schema, itemName), ArrCell(builded.v))
      \* lines 131-136
      each(data, itemName, itemFound) ==
        IF itemFound.x # "ok" THEN Thrown(data.h)
        ELSE built(itemName, IterateMap(data.h, E, data.v, 1, <<>>, itemName,
                                        itemFound.v, d))
      \* line 130
      run(data) ==
        IF data.x # "ok" THEN data
        ELSE IF ~IsArrAt(data.h, data.v) THEN Created(data.h, ArrCell(<<>>))
        ELSE each(data, ToStr(data.h, itemNameArg),
                  PathReduce(data.h, E.schema, Split(Substring(key, 1), "/")))
  IN run(Loop(h, E, keyData, Undef, FALSE, d))

\* Lines 140-144: the join task.
TaskJoinRun(h, E, first, join, next, d) ==
  LET \* line 143
      joined(f, rest) ==
        IF rest.x # "ok" THEN rest
        ELSE Ok(rest.h, Str(JoinArr(rest.h, <<f>> \o rest.h[rest.v.a].e, <<>>)))
      listed(f, pair) == joined(f, Loop(pair.h, E, pair.v, Undef, FALSE, d))
      nested(f, nextArr) == listed(f, Alloc(nextArr.h, ArrCell(<<join, nextArr.v>>)))
      \* line 142
      run(f) ==
        IF f.x # "ok" THEN f
        ELSE IF IsArrAt(f.h, f.v)
        THEN Ok(f.h, Str(JoinArr(f.h, f.h[f.v.a].e,
                                 IF join.t = "undef" THEN <<",">> ELSE ToStr(f.h, join))))
        ELSE nested(f.v, Alloc(f.h, ArrCell(next)))
  IN run(Loop(h, E, first, Undef, FALSE, d))

\* d.substring(1).split('/').reduce((obj, key) => obj[key], schema): a
\* TypeError when d is no string or the path runs through undefined or null.
RawLookup(h, E, dArg) ==
  IF ~IsStr(dArg) THEN [x |-> "throw", v |-> Undef]
  ELSE PathReduce(h, E.schema, Split(Substring(dArg.s, 1), "/"))

\* Lines 145-146: the ignore task.
TaskIgnoreRun(h, E, dArg, def) ==
  LET pick(got) ==
        IF got.x # "ok" THEN Thrown(h)
        ELSE Ok(h, IF Truthy(got.v) THEN got.v ELSE def)
  IN pick(RawLookup(h, E, dArg))

\* Lines 147-148: the if task.
TaskIfRun(h, E, dArg, found, def, d) ==
  LET pick(r) ==
        IF r.x # "ok" THEN r
        ELSE Ok(r.h, IF Truthy(r.v) THEN r.v ELSE def)
      test(got) ==
        IF got.x # "ok" THEN Thrown(h)
        ELSE IF ~Truthy(got.v) THEN Ok(h, def)
        ELSE pick(Loop(h, E, found, Undef, FALSE, d))
  IN test(RawLookup(h, E, dArg))

\* Lines 125-153: processRules(key); v is undefined when key is no trigger.
\* No extra tasks are supplied, so a task name outside the four built-in
\* ones is a TypeError (tasks[task] is not a function).  A rule is an
\* array, as its type says.
ProcessRules(h, E, key, d) ==
  LET \* line 152
      call(task, attrs) ==
        IF task = Str(TaskIterate)
        THEN TaskIterateRun(h, E, key, Arg(attrs, 1), Arg(attrs, 2), d)
        ELSE IF task = Str(TaskJoin)
        THEN TaskJoinRun(h, E, Arg(attrs, 1), Arg(attrs, 2),
                         SubSeq(attrs, 3, Len(attrs)), d)
        ELSE IF task = Str(TaskIgnore)
        THEN TaskIgnoreRun(h, E, Arg(attrs, 1), Arg(attrs, 2))
        ELSE IF task = Str(TaskIf)
        THEN TaskIfRun(h, E, Arg(attrs, 1), Arg(attrs, 2), Arg(attrs, 3), d)
        ELSE Thrown(h)
      \* lines 126 and 151
      run(rule) ==
        IF ~Truthy(rule) THEN Ok(h, Undef)
        ELSE IF ~IsArrAt(h, rule) THEN Thrown(h)
        ELSE IF h[rule.a].e = <<>> THEN Thrown(h)
        ELSE call(h[rule.a].e[1], Tail(h[rule.a].e))
  IN IF ~CanGet(E.rules) THEN Thrown(h)
     ELSE run(GetProp(h, E.rules, key))

\* The lookup of lines 234-235, 246-247, 263-264 and 270-271: the path is
\* reduced over root and the value found is cloned.  x = "throw" is the
\* TypeError of the reduce or the SyntaxError of cloning undefined.
Lookup(h, root, keys) ==
  LET cloned(got) == IF got.x # "ok" THEN Thrown(h) ELSE JSONClone(h, got.v)
  IN cloned(PathReduce(h, root, keys))

\* loop for a $ string that returns what the lookup finds as it is, without
\* resolving it further.
LoopDollarOnce(h, E, item, ctx, skip, d) ==
  LET found(data) == IF data.x # "ok" THEN Ok(data.h, item) ELSE data
      lookup(h1, relative) ==
        IF relative /\ ~Truthy(ctx) THEN Ok(h1, item)
        ELSE found(Lookup(h1, IF relative THEN ctx ELSE E.schema,
                          Split(Substring(item.s, IF relative THEN 3 ELSE 1), "/")))
      after(fixed) ==
        IF fixed.x # "ok" THEN fixed
        ELSE IF fixed.v.t # "undef" THEN fixed
        ELSE lookup(fixed.h, StartsWith(item.s, <<"$", ".", "/">>))
  IN after(ProcessRules(h, E, item.s, d))

\* loop for a $ string that looks the path up without asking the rules
\* first.
LoopDollarUnruled(h, E, item, ctx, skip, d) ==
  LET found(relative, data) ==
        IF data.x # "ok" THEN Ok(data.h, item)
        ELSE IF relative THEN Catch(Loop(data.h, E, data.v, ctx, skip, d), item)
        ELSE Loop(data.h, E, data.v, ctx, skip, d)
      lookup(relative) ==
        IF relative /\ ~Truthy(ctx) THEN Ok(h, item)
        ELSE found(relative,
                   Lookup(h, IF relative THEN ctx ELSE E.schema,
                          Split(Substring(item.s, IF relative THEN 3 ELSE 1), "/")))
  IN lookup(StartsWith(item.s, <<"$", ".", "/">>))

\* loop for a $ string that interpolates the ${...} runs of the string when
\* its lookup fails.
LoopDollarInterpolated(h, E, item, ctx, skip, d) ==
  LET failed(h1) ==
        IF IncludesDollarBrace(item.s)
        THEN LoopReplace(h1, E, item.s, 1, <<>>, ctx, skip, d)
        ELSE Ok(h1, item)
      walk(relative, r) == IF relative /\ r.x = "throw" THEN failed(r.h) ELSE r
      found(relative, data) ==
        IF data.x # "ok" THEN failed(data.h)
        ELSE walk(relative, Loop(data.h, E, data.v, ctx, skip, d))
      lookup(h1, relative) ==
        IF relative /\ ~Truthy(ctx) THEN failed(h1)
        ELSE found(relative,
                   Lookup(h1, IF relative THEN ctx ELSE E.schema,
                          Split(Substring(item.s, IF relative THEN 3 ELSE 1), "/")))
      after(fixed) ==
        IF fixed.x # "ok" THEN fixed
        ELSE IF fixed.v.t # "undef" THEN fixed
        ELSE lookup(fixed.h, StartsWith(item.s, <<"$", ".", "/">>))
  IN after(ProcessRules(h, E, item.s, d))

\* Lines 225-251: a string that starts with $ and not with ${.  The walk of
\* the value found is inside the try block for a relative reference and
\* after it for an absolute one.
LoopDollar(h, E, item, ctx, skip, d) ==
  LET \* lines 236-238 and 251
      walk(relative, r) == IF relative THEN Catch(r, item) ELSE r
      \* lines 233-235 and 245-250
      found(relative, data) ==
        IF data.x # "ok" THEN Ok(data.h, item)
        ELSE walk(relative, Loop(data.h, E, data.v, ctx, skip, d))
      \* lines 230-232 and 242
      lookup(h1, relative) ==
        IF relative /\ ~Truthy(ctx) THEN Ok(h1, item)
        ELSE found(relative,
                   Lookup(h1, IF relative THEN ctx ELSE E.schema,
                          Split(Substring(item.s, IF relative THEN 3 ELSE 1), "/")))
      \* line 227
      after(fixed) ==
        IF fixed.x # "ok" THEN fixed
        ELSE IF fixed.v.t # "undef" THEN fixed
        ELSE lookup(fixed.h, StartsWith(item.s, <<"$", ".", "/">>))
  IN after(ProcessRules(h, E, item.s, d))

\* The replace callback that serializes whatever the walk returns, a string
\* too.
ReplaceOneSerialized(h, E, match, path, ctx, skip, d) ==
  LET done(r) ==
        IF r.x = "throw" THEN Ok(r.h, match)
        ELSE IF r.x # "ok" THEN r
        ELSE Ok(r.h, StringifyTree(Reify(r.h, r.v)))
      found(data) ==
        IF data.x # "ok" THEN Ok(h, match)
        ELSE done(Loop(data.h, E, data.v, ctx, skip, d))
      lookup(relative) ==
        IF relative /\ ~Truthy(ctx) THEN Ok(h, match)
        ELSE found(Lookup(h, IF relative THEN ctx ELSE E.schema,
                          Split(IF relative THEN Substring(path, 2) ELSE path, "/")))
  IN lookup(StartsWith(path, <<".", "/">>))

\* Lines 257-278: the replace callback for a match of the pattern: v is the
\* text that replaces it.
ReplaceOne(h, E, match, path, ctx, skip, d) ==
  LET \* lines 266 and 273
      text(processed) ==
        IF IsStr(processed) THEN processed.s
        ELSE IF processed.t = "undef" THEN SUndefined
        ELSE StringifyTree(processed)
      \* lines 265, 272 and 275-277
      done(r) ==
        IF r.x = "throw" THEN Ok(r.h, match)
        ELSE IF r.x # "ok" THEN r
        ELSE Ok(r.h, text(Reify(r.h, r.v)))
      found(data) ==
        IF data.x # "ok" THEN Ok(h, match)
        ELSE done(Loop(data.h, E, data.v, ctx, skip, d))
      \* lines 260-264 and 269-271
      lookup(relative) ==
        IF relative /\ ~Truthy(ctx) THEN Ok(h, match)
        ELSE found(Lookup(h, IF relative THEN ctx ELSE E.schema,
                          Split(IF relative THEN Substring(path, 2) ELSE path, "/")))
  IN lookup(StartsWith(path, <<".", "/">>))

\* Lines 252-280: result.replace(pattern, callback) from position i on; acc
\* is the text produced so far.
LoopReplace(h, E, s, i, acc, ctx, skip, d) ==
  LET next(m, j, r) ==
        IF r.x # "ok" THEN r
        ELSE LoopReplace(r.h, E, s, j + 1, acc \o SubSeq(s, i, m - 1) \o r.v,
                         ctx, skip, d)
      upto(m, j) ==
        next(m, j, ReplaceOne(h, E, SubSeq(s, m, j), SubSeq(s, m + 2, j - 1),
                              ctx, skip, d))
      from(m) ==
        IF m = 0 THEN Ok(h, Str(acc \o SubSeq(s, i, Len(s))))
        ELSE upto(m, MatchEnd(s, m))
  IN from(NextMatch(s, i))

\* Lines 154-284: loop(item, currentContext, skipRelativeRefs).
Loop(h, E, item, ctx, skip, d) ==
  LET \* line 157
      flat(mapped) ==
        IF mapped.x # "ok" THEN mapped
        ELSE Created(mapped.h, ArrCell(FlatElems(mapped.h, mapped.v)))
      \* lines 159 and 204
      members(toReturn) ==
        LoopMembers(toReturn.h, E, item, h[item.a].k, toReturn.v, ctx, skip, d - 1)
  IN IF d = 0 THEN OutOfBounds(h)
     ELSE IF item.t = "null" THEN Ok(h, item)
     ELSE IF IsArrAt(h, item)
     THEN flat(LoopMap(h, E, item, 1, <<>>, ctx, skip, d - 1))
     ELSE IF IsObjAt(h, item)
     THEN IF Truthy(GetProp(h, item, RefKey))
          THEN LoopExpand(h, E, item, ctx, skip, d - 1)
          ELSE members(Alloc(h, EmptyObj))
     ELSE IF IsStr(item) /\ IsDollarRef(item.s)
     THEN LoopDollar(h, E, item, ctx, skip, d - 1)
     ELSE IF IsStr(item) /\ IncludesDollarBrace(item.s)
     THEN LoopReplace(h, E, item.s, 1, <<>>, ctx, skip, d - 1)
     ELSE Ok(h, item)

\* Lines 119-124 and 285: the call resolveRefs(object, schema, rules), with
\* the caller's three values in the heap.  The walk starts on a clone.
ResolveRefs(h, object, schema, rules) ==
  LET walk(clone) ==
        IF clone.x # "ok" THEN Thrown(h)
        ELSE Loop(clone.h, [schema |-> schema, rules |-> rules], clone.v, Undef,
                  FALSE, MaxDepth)
  IN walk(JSONClone(h, object))

\* Line 121: the schema defaults to a clone of object.
DefaultSchema(h, object) == JSONClone(h, object)

(***************************************************************************)
(* The basic resolver (src/unnamed/part_006): the same walk without        *)
(* Context, relative references and deferred blocks.  Its lookups and its  *)
(* ignore task are, line for line, those of the extended resolver.         *)
(***************************************************************************)
RECURSIVE BasicLoop(_, _, _, _)
RECURSIVE BasicLoopMap(_, _, _, _, _, _)
RECURSIVE BasicLoopMembers(_, _, _, _, _, _)
RECURSIVE BasicLoopReplace(_, _, _, _, _, _)
RECURSIVE BasicProcessRules(_, _, _, _)
RECURSIVE BasicIterateMap(_, _, _, _, _, _, _, _)

\* Line 66: item.map(a => loop(a)), from element i on.
BasicLoopMap(h, E, arr, i, acc, d) ==
  LET next(r) ==
        IF r.x # "ok" THEN r
        ELSE BasicLoopMap(r.h, E, arr, i + 1, Append(acc, r.v), d)
  IN IF i > Len(h[arr.a].e) THEN Ok(h, acc)
     ELSE next(BasicLoop(h, E, h[arr.a].e[i], d))

\* Lines 78-80: Object.keys(item).forEach(i => toReturn[i] = loop(item[i])).
BasicLoopMembers(h, E, item, keys, toReturn, d) ==
  LET set(r) ==
        IF r.x # "ok" THEN r
        ELSE BasicLoopMembers(HeapSet(r.h, toReturn, Head(keys), r.v), E, item,
                              Tail(keys), toReturn, d)
  IN IF keys = <<>> THEN Ok(h, toReturn)
     ELSE set(BasicLoop(h, E, GetProp(h, item, Head(keys)), d))

\* Lines 69-76: a mapping with a truthy ref.  The overrides are walked
\* before they are merged over the template.
BasicLoopExpand(h, E, item, d) ==
  LET ok(m) == Ok(m.h, m.v)
      into(fresh, sources) == ok(DeepMerge(fresh.h, fresh.v, sources))
      \* lines 75-76
      merge(refObj, modify) ==
        IF modify.x # "ok" THEN modify
        ELSE IF IsStr(refObj)
        THEN into(Alloc(modify.h, ObjCell(<<RefKey>>, <<refObj>>)), <<modify.v>>)
        ELSE into(Alloc(modify.h, EmptyObj), <<refObj, modify.v>>)
      \* line 74
      walked(refObj, unflattened) ==
        IF refObj.x # "ok" THEN refObj
        ELSE merge(refObj.v, BasicLoop(refObj.h, E, unflattened, d))
      \* line 73
      template(ref, unflattened) ==
        IF unflattened.x # "ok" THEN unflattened
        ELSE walked(BasicLoop(unflattened.h, E, ref, d), unflattened.v)
  IN \* lines 70-72
     template(GetProp(h, item, RefKey), Unflatten(HeapDel(h, item, RefKey), item, "/"))

\* Lines 42-45: data.map(item => { schema[itemName] = item; return
\* loop(itemFound) }), from element i on.
BasicIterateMap(h, E, data, i, acc, itemName, itemFound, d) ==
  LET next(r) ==
        IF r.x # "ok" THEN r
        ELSE BasicIterateMap(r.h, E, data, i + 1, Append(acc, r.v), itemName,
                             itemFound, d)
      bound(set) ==
        IF set.x # "ok" THEN Thrown(set.h)
        ELSE next(BasicLoop(set.h, E, itemFound, d))
  IN IF i > Len(h[data.a].e) THEN Ok(h, acc)
     ELSE bound(SetProp(h, E.schema, itemName, h[data.a].e[i]))

\* Lines 37-48: the iterate task of the rule whose trigger is key.
BasicTaskIterateRun(h, E, key, keyData, itemNameArg, d) ==
  LET \* lines 46-47
      built(itemName, builded) ==
        IF builded.x # "ok" THEN builded
        ELSE Created(DelProp(builded.h, E.schema, itemName), ArrCell(builded.v))
      \* lines 40-45
      each(data, itemName, itemFound) ==
        IF itemFound.x # "ok" THEN Thrown(data.h)
        ELSE built(itemName, BasicIterateMap(data.h, E, data.v, 1, <<>>, itemName,
                                             itemFound.v, d))
      \* lines 38-39
      run(data) ==
        IF data.x # "ok" THEN data
        ELSE IF ~IsArrAt(data.h, data.v) THEN Created(data.h, ArrCell(<<>>))
        ELSE each(data, ToStr(data.h, itemNameArg),
                  PathReduce(data.h, E.schema, Split(Substring(key, 1), "/")))
  IN run(BasicLoop(h, E, keyData, d))

\* Lines 49-53: the join task.
BasicTaskJoinRun(h, E, first, join, next, d) ==
  LET \* line 52
      joined(f, rest) ==
        IF rest.x # "ok" THEN rest
        ELSE Ok(rest.h, Str(JoinArr(rest.h, <<f>> \o rest.h[rest.v.a].e, <<>>)))
      listed(f, pair) == joined(f, BasicLoop(pair.h, E, pair.v, d))
      nested(f, nextArr) == listed(f, Alloc(nextArr.h, ArrCell(<<join, nextArr.v>>)))
      \* lines 50-51
      run(f) ==
        IF f.x # "ok" THEN f
        ELSE IF IsArrAt(f.h, f.v)
        THEN Ok(f.h, Str(JoinArr(f.h, f.h[f.v.a].e,
                                 IF join.t = "undef" THEN <<",">> ELSE ToStr(f.h, join))))
        ELSE nested(f.v, Alloc(f.h, ArrCell(next)))
  IN run(BasicLoop(h, E, first, d))

\* Lines 56-57: the if task.
BasicTaskIfRun(h, E, dArg, found, def, d) ==
  LET pick(r) ==
        IF r.x # "ok" THEN r
        ELSE Ok(r.h, IF Truthy(r.v) THEN r.v ELSE def)
      test(got) ==
        IF got.x # "ok" THEN Thrown(h)
        ELSE IF ~Truthy(got.v) THEN Ok(h, def)
        ELSE pick(BasicLoop(h, E, found, d))
  IN test(RawLookup(h, E, dArg))

\* Lines 34-62: processRules(key); the ignore task (lines 54-55) is
\* TaskIgnoreRun.
BasicProcessRules(h, E, key, d) ==
  LET \* line 61
      call(task, attrs) ==
        IF task = Str(TaskIterate)
        THEN BasicTaskIterateRun(h, E, key, Arg(attrs, 1), Arg(attrs, 2), d)
        ELSE IF task = Str(TaskJoin)
        THEN BasicTaskJoinRun(h, E, Arg(attrs, 1), Arg(attrs, 2),
                              SubSeq(attrs, 3, Len(attrs)), d)
        ELSE IF task = Str(TaskIgnore)
        THEN TaskIgnoreRun(h, E, Arg(attrs, 1), Arg(attrs, 2))
        ELSE IF task = Str(TaskIf)
        THEN BasicTaskIfRun(h, E, Arg(attrs, 1), Arg(attrs, 2), Arg(attrs, 3), d)
        ELSE Thrown(h)
      \* lines 35 and 60
      run(rule) ==
        IF ~Truthy(rule) THEN Ok(h, Undef)
        ELSE IF ~IsArrAt(h, rule) THEN Thrown(h)
        ELSE IF h[rule.a].e = <<>> THEN Thrown(h)
        ELSE call(h[rule.a].e[1], Tail(h[rule.a].e))
  IN IF ~CanGet(E.rules) THEN Thrown(h)
     ELSE run(GetProp(h, E.rules, key))

\* Lines 83-95: a string that starts with $ and not with ${.
BasicLoopDollar(h, E, item, d) ==
  LET \* lines 89-95
      found(data) ==
        IF data.x # "ok" THEN Ok(data.h, item)
        ELSE BasicLoop(data.h, E, data.v, d)
      \* lines 84-86
      after(fixed) ==
        IF fixed.x # "ok" THEN fixed
        ELSE IF fixed.v.t # "undef" THEN fixed
        ELSE found(Lookup(fixed.h, E.schema, Split(Substring(item.s, 1), "/")))
  IN after(BasicProcessRules(h, E, item.s, d))

\* Lines 101-111: the replace callback for a match of the pattern.
BasicReplaceOne(h, E, match, path, d) ==
  LET \* line 106
      text(processed) ==
        IF IsStr(processed) THEN processed.s
        ELSE IF processed.t = "undef" THEN SUndefined
        ELSE StringifyTree(processed)
      \* lines 105 and 107-109
      done(r) ==
        IF r.x = "throw" THEN Ok(r.h, match)
        ELSE IF r.x # "ok" THEN r
        ELSE Ok(r.h, text(Reify(r.h, r.v)))
      \* lines 102-104
      found(data) ==
        IF data.x # "ok" THEN Ok(h, match)
        ELSE done(BasicLoop(data.h, E, data.v, d))
  IN found(Lookup(h, E.schema, Split(path, "/")))

\* Lines 96-113: result.replace(pattern, callback) from position i on.
BasicLoopReplace(h, E, s, i, acc, d) ==
  LET next(m, j, r) ==
        IF r.x # "ok" THEN r
        ELSE BasicLoopReplace(r.h, E, s, j + 1, acc \o SubSeq(s, i, m - 1) \o r.v, d)
      upto(m, j) ==
        next(m, j, BasicReplaceOne(h, E, SubSeq(s, m, j), SubSeq(s, m + 2, j - 1), d))
      from(m) ==
        IF m = 0 THEN Ok(h, Str(acc \o SubSeq(s, i, Len(s))))
        ELSE upto(m, MatchEnd(s, m))
  IN from(NextMatch(s, i))

\* Lines 63-117: loop(item).
BasicLoop(h, E, item, d) ==
  LET \* line 66
      flat(mapped) ==
        IF mapped.x # "ok" THEN mapped
        ELSE Created(mapped.h, ArrCell(FlatElems(mapped.h, mapped.v)))
      \* lines 68 and 78
      members(toReturn) ==
        BasicLoopMembers(toReturn.h, E, item, h[item.a].k, toReturn.v, d - 1)
  IN IF d = 0 THEN OutOfBounds(h)
     ELSE IF item.t = "null" THEN Ok(h, item)
     ELSE IF IsArrAt(h, item)
     THEN flat(BasicLoopMap(h, E, item, 1, <<>>, d - 1))
     ELSE IF IsObjAt(h, item)
     THEN IF Truthy(GetProp(h, item, RefKey))
          THEN BasicLoopExpand(h, E, item, d - 1)
          ELSE members(Alloc(h, EmptyObj))
     ELSE IF IsStr(item) /\ IsDollarRef(item.s)
     THEN BasicLoopDollar(h, E, item, d - 1)
     ELSE IF IsStr(item) /\ IncludesDollarBrace(item.s)
     THEN BasicLoopReplace(h, E, item.s, 1, <<>>, d - 1)
     ELSE Ok(h, item)

\* Lines 29-33 and 118: the call resolveRefs(object, schema, rules) of the
\* basic resolver.
BasicResolveRefs(h, object, schema, rules) ==
  LET walk(clone) ==
        IF clone.x # "ok" THEN Thrown(h)
        ELSE BasicLoop(clone.h, [schema |-> schema, rules |-> rules], clone.v,
                       MaxDepth)
  IN walk(JSONClone(h, object))

(***************************************************************************)
(* The caller's data.  Keys are one character long unless they are built   *)
(* here; a path is a sequence of keys.                                     *)
(***************************************************************************)
Key(c) == <<c>>
PathText(path) == JoinStrs(path, <<"/">>)
\* "$a/b", "$./a/b", "${a/b}" and "${./a/b}"
Abs(path) == <<"$">> \o PathText(path)
Rel(path) == <<"$", ".", "/">> \o PathText(path)
RunAbs(path) == <<"$", "{">> \o PathText(path) \o <<"}">>
RunRel(path) == <<"$", "{", ".", "/">> \o PathText(path) \o <<"}">>

Obj(ks, vs) == ObjCell(ks, vs)
Arr(es) == ArrCell(es)
Obj1(k, v) == ObjCell(<<k>>, <<v>>)
\* The tree with key set to val (appended when new): trees hold no
\* integer-like keys here.
With(tree, key, val) ==
  IF KeyPos(tree, key) # 0
  THEN ObjCell(tree.k, [tree.v EXCEPT ![KeyPos(tree, key)] = val])
  ELSE ObjCell(Append(tree.k, key), Append(tree.v, val))
\* The union of two trees' members, those of b last.
RECURSIVE Plus(_, _)
Plus(a, b) ==
  IF b.k = <<>> THEN a
  ELSE Plus(With(a, Head(b.k), Head(b.v)), ObjCell(Tail(b.k), Tail(b.v)))

\* Chains of references: link i of chain c is the key <<c, i>>; link i
\* holds the reference to link i + 1 and the last link holds the end value.
Link(c, i) == <<c, Digits[i + 1]>>
Chain(c, end) ==
  Obj([i \in 1..MaxChain |-> Link(c, i)],
      [i \in 1..MaxChain |->
         IF i < MaxChain THEN Str(Abs(<<Link(c, i + 1)>>)) ELSE end])

ChainEnds ==
  [n |-> Num(7),
   s |-> Str(<<"e", "n", "d">>),
   o |-> Obj1(Key("q"), Str(<<"e", "n", "d">>)),
   m |-> Arr(<<Arr(<<Num(1)>>), Arr(<<Num(2), Num(3)>>)>>)]
ChainNames == {"n", "s", "o", "m"}

\* A deferred block whose fields form a chain: field i refers to field
\* i + 1 and the last one to the template's field b; up lists the fields
\* in that order, and the other order otherwise.
Field(i) == <<"d", Digits[i + 1]>>
BlockChain(up) ==
  LET at(i) == IF up THEN i ELSE MaxChain + 1 - i
  IN Obj([i \in 1..MaxChain |-> Field(at(i))],
         [i \in 1..MaxChain |->
            IF at(i) < MaxChain THEN Str(Rel(<<Field(at(i) + 1)>>))
            ELSE Str(<<"<">> \o RunRel(<<Key("b")>>) \o <<">">>)])

\* Texts.
Two == <<"t", "w", "o">>
Why == <<"w", "h", "y">>
Base == <<"b", "a", "s", "e">>
Late == <<"l", "a", "t", "e">>

\* The schema the caller keeps: plain values under v, the chains, the
\* templates t, c, r, s, k, p, U, D, X, and what the iterate rules use (the
\* list L, the item templates g and G, and a value u of its own).
Values ==
  Obj(<<Key("a"), Key("b"), Key("n"), Key("z"), Key("e"), Key("l"), Key("o")>>,
      <<Num(1), Str(Two), Null, Num(0), Str(<<>>), Arr(<<Num(1), Num(2)>>),
        Obj1(Key("p"), Bool(TRUE))>>)
\* Fields x, y, w and f, and a deferred block that reads x, y and w.
TemplateT ==
  Obj(<<Key("x"), Key("y"), Key("w"), Key("f"), DotKey>>,
      <<Num(5), Str(Why), Obj1(Key("q"), Num(0)), Num(0),
        Obj(<<Key("d"), Key("i"), Key("j")>>,
            <<Str(Rel(<<Key("x")>>)),
              Str(<<"<">> \o RunRel(<<Key("y")>>) \o <<">">>),
              Str(Rel(<<Key("w")>>))>>)>>)
\* A deferred block whose fields refer to one another, in both key orders.
TemplateC == Obj(<<Key("b"), DotKey>>, <<Str(<<"B">>), BlockChain(TRUE)>>)
TemplateR == Obj(<<Key("b"), DotKey>>, <<Str(<<"B">>), BlockChain(FALSE)>>)
\* A deferred field g beside a template field g.
TemplateS ==
  Obj(<<Key("g"), DotKey>>,
      <<Str(Base),
        Obj(<<Key("f"), Key("g")>>, <<Str(Rel(<<Key("g")>>)), Str(Late)>>)>>)
\* A deferred block that holds a ref-bearing mapping.
TemplateK ==
  Obj1(DotKey,
       Obj1(Key("r"),
            Obj(<<RefKey, Key("o")>>, <<Str(Abs(<<Key("q")>>)), Num(1)>>)))
\* A mapping with a block of its own that expands t inside it.
TemplateP ==
  Obj(<<Key("x"), DotKey>>,
      <<Str(<<"O", "U", "T">>),
        Obj1(Key("i"),
             Obj(<<RefKey, Key("x")>>,
                 <<Str(Abs(<<Key("t")>>)), Str(<<"O">>)>>))>>)
\* A deferred block whose references name no field of the template.
TemplateU ==
  Obj(<<Key("h"), DotKey>>,
      <<Str(<<"H">>),
        Obj(<<Key("u"), Key("v")>>,
            <<Str(Rel(<<Key("m")>>)),
              Str(<<"<">> \o RunRel(<<Key("m"), Key("x")>>) \o <<">">>)>>)>>)
\* A template whose member m has a deferred block of plain values.
TemplateD ==
  Obj1(Key("m"),
       Obj(<<Key("x"), DotKey>>, <<Num(1), Obj1(Key("d"), Num(2))>>))
\* A deferred field x that interpolates the template's own field x.
TemplateX ==
  Obj(<<Key("x"), DotKey>>,
      <<Str(<<"a">>), Obj1(Key("x"), Str(RunRel(<<Key("x")>>) \o <<"b">>))>>)
ItemList == Arr(<<Obj1(Key("n"), Num(7)), Obj1(Key("n"), Num(8))>>)
ItemPlain == Obj1(Key("i"), Str(Abs(<<Key("e"), Key("n")>>)))
ItemRef == Obj(<<RefKey, Key("z")>>, <<Str(Abs(<<Key("u")>>)), Num(1)>>)

\* The members of two mappings that share no key.
Both(a, b) == ObjCell(a.k \o b.k, a.v \o b.v)

Library ==
  Both(Obj(<<Key("v"), Key("t"), Key("c"), Key("r"), Key("s"), Key("k"),
             Key("p"), Key("U"), Key("D"), Key("L"), Key("g"), Key("G"),
             Key("u")>>,
           <<Values, TemplateT, TemplateC, TemplateR, TemplateS, TemplateK,
             TemplateP, TemplateU, TemplateD, ItemList, ItemPlain, ItemRef,
             Obj1(Key("n"), Num(0))>>),
       Both(Both(Chain("n", ChainEnds.n), Chain("s", ChainEnds.s)),
            Both(Chain("o", ChainEnds.o), Chain("m", ChainEnds.m))))
\* A smaller one, for a document that is resolved against itself.
Definitions ==
  Both(Obj(<<Key("v"), Key("t"), Key("c"), Key("s")>>,
           <<Values, TemplateT, TemplateC, TemplateS>>),
       Chain("n", ChainEnds.n))
\* A schema without deferred blocks and relative references: the members
\* of Library that hold none, and the template t without its block.
RECURSIVE Lacking(_, _)
Lacking(tree, keys) ==
  IF keys = <<>> THEN tree ELSE Lacking(ObjDelCell(tree, Head(keys)), Tail(keys))
PlainLibrary ==
  With(Lacking(Library, <<Key("c"), Key("r"), Key("s"), Key("k"), Key("p"),
                          Key("U"), Key("D")>>),
       Key("t"), ObjDelCell(TemplateT, DotKey))
Schemas == {Library, PlainLibrary, EmptyObj}

\* The rule sets: none, and one with every built-in task.  Two triggers are
\* paths that resolve as well: $v/o/p, whose task returns undefined, and
\* $./w/length.
Rule(task, args) == Arr(<<Str(task)>> \o args)
NoRules == EmptyObj
AllRules ==
  Obj(<<Abs(<<Key("g")>>), Abs(<<Key("G")>>), Abs(<<Key("J")>>),
        Abs(<<Key("K")>>), Abs(<<Key("I")>>), Abs(<<Key("M")>>),
        Abs(<<Key("N")>>), Abs(<<Key("F")>>), Abs(<<Key("H")>>),
        Abs(<<Key("O")>>), Abs(<<Key("v"), Key("o"), Key("p")>>),
        Rel(<<Key("w"), LengthKey>>), Abs(<<Key("Z")>>)>>,
      <<Rule(TaskIterate, <<Str(Abs(<<Key("L")>>)), Str(Key("e"))>>),
        Rule(TaskIterate, <<Str(Abs(<<Key("L")>>)), Str(Key("u"))>>),
        Rule(TaskJoin, <<Str(Abs(<<Key("v"), Key("l")>>)), Str(<<"-">>)>>),
        Rule(TaskJoin, <<Str(Abs(<<Key("v"), Key("b")>>)), Str(<<"-">>),
                         Str(Abs(<<Key("v"), Key("a")>>)), Str(<<"x">>)>>),
        Rule(TaskIgnore, <<Str(Abs(<<Key("v"), Key("a")>>)), Str(<<"d">>)>>),
        Rule(TaskIgnore, <<Str(Abs(<<Key("q"), Key("y")>>)), Str(<<"d">>)>>),
        Rule(TaskIgnore, <<Str(Abs(<<Key("q")>>)), Str(<<"d">>)>>),
        Rule(TaskIf, <<Str(Abs(<<Key("v"), Key("a")>>)),
                       Str(Abs(<<Key("v"), Key("b")>>)), Str(<<"n", "o">>)>>),
        Rule(TaskIf, <<Str(Abs(<<Key("v"), Key("z")>>)),
                       Str(Abs(<<Key("v"), Key("b")>>)), Str(<<"n", "o">>)>>),
        Rule(TaskIgnore, <<Str(Abs(<<Key("v"), Key("o")>>)), Str(<<"d">>)>>),
        Rule(TaskIgnore, <<Str(Abs(<<Key("v"), Key("z")>>))>>),
        Rule(TaskIgnore, <<Str(Abs(<<Key("q")>>)), Str(<<"d">>)>>),
        Rule(TaskIf, <<Str(Abs(<<Key("v"), Key("a")>>)),
                       Str(Abs(<<Key("v"), Key("z")>>)), Str(<<"n", "o">>)>>)>>)
\* The rules of AllRules whose trigger is no relative reference.
GlobalRules == ObjDelCell(AllRules, Rel(<<Key("w"), LengthKey>>))
RuleSets == {NoRules, GlobalRules, AllRules}

\* What the caller asks to resolve.  Paths that exist in Library, paths
\* that do not (q is no key of it), and the rule triggers.
Found ==
  {<<Key("v"), Key(c)>> : c \in {"a", "b", "n", "z", "e", "l", "o"}}
    \cup {<<Key("v"), Key("l"), Key("1")>>, <<Key("v"), Key("l"), LengthKey>>,
          <<Key("v"), Key("o"), Key("p")>>}
    \cup {<<Link(c, i)>> : c \in ChainNames, i \in 1..MaxChain}
    \cup {<<Key(c)>> : c \in {"t", "k", "p", "L", "g", "G"}}
Missing ==
  {<<Key("q")>>, <<Key("q"), Key("y")>>, <<Key("v"), Key("q")>>,
   <<Key("v"), Key("q"), Key("r")>>, <<Key("v"), Key("a"), Key("x")>>,
   <<Key("v"), Key("n"), Key("x")>>, <<Key("v"), Key("l"), Key("5")>>}
\* Paths through a name no mapping of the schema has as a key.
Inherited ==
  {<<ConstructorKey>>, <<ConstructorKey, NameKey>>,
   <<Key("v"), Key("l"), ConstructorKey, NameKey>>}
Triggers == {<<Key(c)>> : c \in {"J", "K", "I", "M", "N", "F", "H", "O", "Z"}}

Scalars ==
  {Str(Abs(p)) : p \in Found \cup Missing \cup Inherited \cup Triggers}
    \cup {Str(Rel(<<Key("x")>>)), Str(<<"$">>), Str(Two), Num(3), Null}
    \cup {Str(Abs(<<Key("q")>>) \o <<"-">> \o RunAbs(<<Key("v"), Key("a")>>))}

\* Strings with ${...} runs.
Texts ==
  {Str(<<"H", "i", " ">> \o RunAbs(<<Key("v"), Key("a")>>) \o <<",", " ", "b">>),
   Str(RunAbs(<<Key("v"), Key("b")>>) \o RunAbs(<<Key("v"), Key("o")>>)),
   Str(RunAbs(<<Key("q")>>) \o <<"-">> \o RunAbs(<<Key("v"), Key("a")>>)
         \o <<"-">> \o RunAbs(<<Key("v"), Key("q"), Key("r")>>)),
   Str(<<"a">> \o RunAbs(<<Key("v"), Key("n")>>) \o RunAbs(<<Key("v"), Key("l")>>)),
   Str(RunAbs(<<Key("v"), Key("e")>>) \o RunAbs(<<Key("v"), Key("z")>>)),
   Str(RunRel(<<Key("x")>>) \o <<"!">>),
   Str(<<"x", "$", "{", "}">> \o <<"$", "{", "v", "/", "a">>),
   Str(<<"{">> \o RunAbs(<<Key("q"), Key("y")>>) \o <<"}">>),
   Str(<<"a", " ">> \o RunAbs(<<Key("v"), ConstructorKey, NameKey>>))}
    \cup {Str(<<"[">> \o RunAbs(<<Link(c, 1)>>) \o <<"]">>) : c \in ChainNames}

\* Overrides of a ref-bearing mapping, and the mappings themselves.
Overrides ==
  {EmptyObj,
   Obj1(Key("x"), Num(9)),
   Obj1(Key("x"), Num(0)),
   Obj1(Key("x"), Obj1(Key("q"), Num(1))),
   Obj1(Key("x"), Arr(<<Num(1)>>)),
   Obj1(Key("w"), Obj1(Key("r"), Num(2))),
   Obj1(Key("w"), Num(3)),
   Obj1(<<"w", "/", "q">>, Num(4)),
   Obj1(Key("f"), Obj1(Key("q"), Num(1))),
   Obj1(Key("y"), Null),
   Obj1(Key("b"), Str(<<"O">>)),
   Obj1(Key("g"), Str(<<"O">>)),
   Obj(<<Key("x"), Key("n")>>, <<Str(<<"O">>), Str(Abs(<<Key("v"), Key("a")>>))>>)}
Templates ==
  {Abs(<<Key(c)>>) : c \in {"t", "c", "r", "s", "k", "p", "U", "q"}}
    \cup {Abs(<<Key("v"), Key("b")>>)}
Expansions == {Plus(Obj1(RefKey, Str(r)), o) : r \in Templates, o \in Overrides}
\* A ref-bearing mapping that expands the template D, and the reference to
\* D as a scalar.
NestedExpansions ==
  {Obj1(RefKey, Str(Abs(<<Key("D")>>))), Str(Abs(<<Key("D")>>))}
\* Ref-bearing mappings whose ref is a path without the $ prefix.
BareExpansions ==
  {Plus(Obj1(RefKey, Str(Key("t"))), o) : o \in {EmptyObj, Obj1(Key("x"), Num(9))}}

Lists ==
  {Arr(<<Str(Abs(<<Key("v"), Key("l")>>)), Num(3)>>),
   Arr(<<Str(Abs(<<Key("v"), Key("a")>>)), Str(Abs(<<Key("q")>>)),
         Arr(<<Str(Abs(<<Key("v"), Key("b")>>))>>)>>),
   Arr(<<Str(Abs(<<Link("m", 1)>>)), Obj1(RefKey, Str(Abs(<<Key("s")>>)))>>)}

\* Mappings without ref that hold a block of their own: the members x and
\* w and the block, which is the member at position i.
OwnBlock ==
  Obj(<<Key("d"), Key("e"), Key("w")>>,
      <<Str(Rel(<<Key("x")>>)), Str(<<"<">> \o RunRel(<<Key("w")>>) \o <<">">>),
        Str(RunRel(<<Key("w")>>) \o <<"!">>)>>)
InPlace(i, block) ==
  Obj(InsertAt(<<Key("x"), Key("w")>>, i, DotKey),
      InsertAt(<<Str(Abs(<<Key("v"), Key("a")>>)), Str(Abs(<<Key("v"), Key("b")>>))>>,
               i, block))
\* A block whose field is a relative reference that is a rule trigger too.
RuledBlock == Obj1(Key("r"), Str(Rel(<<Key("w"), LengthKey>>)))
\* Documents that hold the template X: one expands it as its member a,
\* one inside a block of its own.
MemberX ==
  Obj(<<Key("X"), Key("a")>>, <<TemplateX, Obj1(RefKey, Str(Abs(<<Key("X")>>)))>>)
EnclosedX ==
  Obj(<<Key("X"), Key("x"), DotKey>>,
      <<TemplateX, Str(<<"O", "U", "T">>),
        Obj1(Key("i"), Obj1(RefKey, Str(Abs(<<Key("X")>>))))>>)
InPlaces ==
  {InPlace(i, OwnBlock) : i \in 1..3}
    \cup {InPlace(2, Null), InPlace(3, RuledBlock)}

Fragments ==
  Scalars \cup Texts \cup Expansions \cup BareExpansions \cup NestedExpansions
    \cup Lists
\* A call resolves a mapping with the fragment as its member a, or with a
\* plain member beside it, or the fragment itself, or a mapping with a
\* deferred block of its own.
Inputs ==
  {Obj1(Key("a"), f) : f \in Fragments}
    \cup {Obj(<<Key("b"), Key("a")>>, <<Num(1), f>>) : f \in Texts}
    \cup Lists \cup Texts \cup {TemplateP} \cup InPlaces
\* A document that holds its own definitions, resolved against itself.
Documents ==
  {With(Definitions, Key("a"), f) :
     f \in Texts \cup {Plus(Obj1(RefKey, Str(Abs(<<Key(c)>>))), o) :
                         c \in {"t", "c", "s"}, o \in Overrides}}
    \cup {Obj(<<Key("L"), Key(g), Key(e), Key("a")>>,
              <<ItemList, IF g = "g" THEN ItemPlain ELSE ItemRef,
                Obj1(Key("n"), Num(0)), Str(Abs(<<Key(g)>>))>>) :
            g \in {"g", "G"}, e \in {"e", "u"}}
    \cup {MemberX, EnclosedX}

(***************************************************************************)
(* The caller.  It keeps a schema, and calls resolveRefs with an input     *)
(* and a rule set, with its schema or without one.  The variables hold     *)
(* what the caller can see: its schema and its input object as they are    *)
(* now, what they were when the last call was made, and how that call      *)
(* ended.                                                                  *)
(***************************************************************************)
VARIABLES
  pc,        \* "idle", "returned" (the last call ended) or "hung" (it runs for ever)
  schema,    \* the caller's schema object
  object,    \* the caller's input object
  input,     \* the input as it was when the last call was made
  given,     \* the schema as it was when the last call was made
  rules,     \* the rule set of the last call
  how,       \* "none", or the schema of the last call: "schema", "alone", "self"
  outcome,   \* "none", or how the last call ended: "ok", "throw", "loop"
  result,    \* the tree the last call returned, undefined without one
  shared,    \* whether the returned tree holds a cell the schema also holds
  events,    \* EventHandler.events: the direct subscriptions of each event
  patterns,  \* EventHandler.patterns: the wildcard patterns, each with its
             \* subscriptions
  cache,     \* EventHandler.cache: the subscriptions kept for each event
  subscribed,  \* the subscriptions made and not unsubscribed since
  removed,     \* what the last unsubscribe removed, when no subscribe
               \* came since
  dispatched,  \* the last dispatch, when no subscription changed since
  queue,       \* FetchQueue.queue: the entries, in the order of their keys
  isRunning,   \* FetchQueue.isRunning
  flight,      \* the call of the fetch function that runQueue awaits
  promises,    \* the promises addRequest returned, each with its request
               \* and the promises that were pending when it was made
  calls,       \* the calls of the fetch function made so far
  useConfig,   \* object-mutation's useConfig: the fixer configured, or none
  merged       \* the last deepMerge call, when setConfig was not called since

resolveVars ==
  <<pc, schema, object, input, given, rules, how, outcome, result, shared>>
handlerVars == <<events, patterns, cache, subscribed, removed, dispatched>>
queueVars == <<queue, isRunning, flight, promises, calls>>
mergeVars == <<useConfig, merged>>
vars == <<resolveVars, handlerVars, queueVars, mergeVars>>
besidesResolve == <<handlerVars, queueVars, mergeVars>>
besidesHandler == <<resolveVars, queueVars, mergeVars>>
besidesQueue == <<resolveVars, handlerVars, mergeVars>>
besidesMerge == <<resolveVars, handlerVars, queueVars>>

\* The addresses of the cells a value holds: the mappings and sequences
\* that can be reached from it and that a write through it would change.
RECURSIVE Reach(_, _)
Reach(h, v) ==
  IF ~IsPtr(v) THEN {}
  ELSE {v.a} \cup UNION {Reach(h, w) : w \in IF IsObjAt(h, v)
                                              THEN {h[v.a].v[i] : i \in 1..Len(h[v.a].v)}
                                              ELSE {h[v.a].e[i] : i \in 1..Len(h[v.a].e)}}

\* The call resolveRefs(o, s, r), resolveRefs(o, undefined, r) when the
\* schema is left out ("alone"), or resolveRefs(o, o, r) ("self"): the
\* caller's objects are laid out in a heap, the call runs, and the caller's
\* objects and the result are read back.
Call(o, s, r, schemaIs) ==
  LET back(obj, sch, out) ==
        [outcome |-> out.x,
         shared |-> out.x = "ok" /\ Reach(out.h, out.v) \cap Reach(out.h, sch) # {},
         result |-> IF out.x = "ok" THEN Reify(out.h, out.v) ELSE Undef,
         object |-> Reify(out.h, obj),
         schema |-> Reify(out.h, sch)]
      run(obj, sch, rul) == back(obj, sch, ResolveRefs(rul.h, obj, sch, rul.v))
      ruled(obj, sch) == run(obj.v, sch.v, Build(sch.h, r))
      laid(obj) ==
        ruled(obj, CASE schemaIs = "alone" -> DefaultSchema(obj.h, obj.v)
                     [] schemaIs = "self" -> obj
                     [] OTHER -> Build(obj.h, s))
  IN laid(Build(<<>>, o))

\* The same call made to the basic resolver.
BasicCall(o, s, r, schemaIs) ==
  LET back(out) ==
        [outcome |-> out.x,
         result |-> IF out.x = "ok" THEN Reify(out.h, out.v) ELSE Undef]
      run(obj, sch, rul) == back(BasicResolveRefs(rul.h, obj, sch, rul.v))
      ruled(obj, sch) == run(obj.v, sch.v, Build(sch.h, r))
      laid(obj) ==
        ruled(obj, CASE schemaIs = "alone" -> DefaultSchema(obj.h, obj.v)
                     [] schemaIs = "self" -> obj
                     [] OTHER -> Build(obj.h, s))
  IN laid(Build(<<>>, o))

\* ------------------------------------------------------------------
\* EventHandler (src/src/event-handler.ts).  Event names, patterns and
\* regular-expression sources are sequences of one-character strings; a
\* subscription is the pair <<callback, id>>; events and cache are
\* functions whose domain holds the keys the object has.

\* The event names dispatched, what callers subscribe to and unsubscribe
\* from, the callbacks, the subscription ids and the data of a dispatch.
EventNames == {<<"a", "b">>, <<"a", ".", "b">>, <<"b">>}
EventStrings ==
  {<<"a", "b">>, <<"a", "*">>, <<"a", ".", "*">>,
   <<"a", "b", ",", " ", "a", "*">>}
Callbacks == {"f", "g"}
Ids == {"1", "2"}
Payloads == {<<"x", "y">>}
MaxSubscriptions == 2

\* str.split(/[\s,]+/): the pieces between the runs of blanks and commas,
\* with an empty piece before a leading run and after a trailing one.
IsSeparator(c) == c \in {" ", ",", "\t", "\n", "\r"}
RECURSIVE SkipSeparators(_)
SkipSeparators(s) ==
  IF s # <<>> /\ IsSeparator(Head(s)) THEN SkipSeparators(Tail(s)) ELSE s
RECURSIVE SplitEvents(_, _)
SplitEvents(s, piece) ==
  IF s = <<>> THEN <<piece>>
  ELSE IF IsSeparator(Head(s))
    THEN <<piece>> \o SplitEvents(SkipSeparators(s), <<>>)
    ELSE SplitEvents(Tail(s), Append(piece, Head(s)))

\* escapeRegExp: a backslash before every character special to RegExp.
RegExpSpecials ==
  {".", "*", "+", "?", "^", "$", "{", "}", "(", ")", "|", "[", "]", "\\"}
RECURSIVE escapeRegExp(_)
escapeRegExp(string) ==
  IF string = <<>> THEN <<>>
  ELSE (IF Head(string) \in RegExpSpecials THEN <<"\\">> ELSE <<>>)
         \o <<Head(string)>> \o escapeRegExp(Tail(string))

\* wildcardToRegExp: the source of the expression, ^ and $ included.
EscapeEach(parts) == [i \in 1..Len(parts) |-> escapeRegExp(parts[i])]
wildcardToRegExp(wildcardString) ==
  <<"^">> \o JoinStrs(EscapeEach(Split(wildcardString, "*")), <<".", "*">>)
          \o <<"$">>

\* regex.test(event) for the sources wildcardToRegExp builds: an escaped
\* character stands for itself, .* for any run of characters.
RECURSIVE TestFrom(_, _, _, _)
TestFrom(source, i, event, j) ==
  CASE source[i] = "$" /\ i = Len(source) -> j > Len(event)
    [] source[i] = "\\" ->
         /\ j <= Len(event) /\ event[j] = source[i + 1]
         /\ TestFrom(source, i + 2, event, j + 1)
    [] source[i] = "." /\ source[i + 1] = "*" ->
         \E k \in j..(Len(event) + 1) : TestFrom(source, i + 2, event, k)
    [] OTHER ->
         /\ j <= Len(event) /\ event[j] = source[i]
         /\ TestFrom(source, i + 1, event, j + 1)
Test(source, event) == source[1] = "^" /\ TestFrom(source, 2, event, 1)

\* e.includes('*')
IncludesStar(e) == \E i \in 1..Len(e) : e[i] = "*"

\* The object r with key k set to val, and without key k.
SetKey(r, k, val) == [x \in DOMAIN r \cup {k} |-> IF x = k THEN val ELSE r[x]]
DeleteKey(r, k) == [x \in DOMAIN r \ {k} |-> r[x]]
\* r[k] || []
OrEmpty(r, k) == IF k \in DOMAIN r THEN r[k] ELSE <<>>

\* list.filter(([, callbackId]) => callbackId !== id)
RECURSIVE WithoutId(_, _)
WithoutId(list, id) ==
  IF list = <<>> THEN <<>>
  ELSE (IF Head(list)[2] = id THEN <<>> ELSE <<Head(list)>>)
         \o WithoutId(Tail(list), id)

\* The place in patterns of the pattern whose source is the given one,
\* 0 without one.
FindPattern(pats, source) ==
  IF \E i \in 1..Len(pats) : pats[i].pattern = source
  THEN CHOOSE i \in 1..Len(pats) :
         /\ pats[i].pattern = source
         /\ \A j \in 1..(i - 1) : pats[j].pattern # source
  ELSE 0

\* One round of subscribe's forEach: the handler H = [events, patterns,
\* cache] after the event or pattern e is subscribed with <<callback, id>>.
SubscribeOne(H, e, sub) ==
  IF IncludesStar(e)
  THEN LET at(i) ==
             IF i # 0
             THEN [H.patterns EXCEPT ![i].callbacks = Append(@, sub)]
             ELSE Append(H.patterns,
                         [pattern |-> wildcardToRegExp(e), callbacks |-> <<sub>>])
       IN [H EXCEPT !.patterns = at(FindPattern(H.patterns, wildcardToRegExp(e)))]
  ELSE [H EXCEPT !.events = SetKey(H.events, e, Append(OrEmpty(H.events, e), sub)),
                 !.cache = SetKey(H.cache, e, Append(OrEmpty(H.cache, e), sub))]
RECURSIVE SubscribeAll(_, _, _)
SubscribeAll(H, es, sub) ==
  IF es = <<>> THEN H
  ELSE SubscribeAll(SubscribeOne(H, Head(es), sub), Tail(es), sub)

\* updateCache and updateCacheWithPattern: the cache without the
\* subscriptions of the id, at one key or at every key the expression
\* matches, and without the keys left with no subscription.
Dropped(c, k, id) ==
  IF WithoutId(c[k], id) = <<>> THEN DeleteKey(c, k)
  ELSE SetKey(c, k, WithoutId(c[k], id))
updateCache(c, event, id) ==
  IF event \in DOMAIN c THEN Dropped(c, event, id) ELSE c
\* A handler that leaves the cache as it is when a pattern is unsubscribed.
updateCacheKept(c, regex, id) == c
updateCacheWithPattern(c, regex, id) ==
  [k \in {x \in DOMAIN c : ~Test(regex, x) \/ WithoutId(c[x], id) # <<>>} |->
     IF Test(regex, k) THEN WithoutId(c[k], id) ELSE c[k]]

\* The patterns after unsubscribe's filter: the pattern of the source
\* loses the subscriptions of the id, and goes when none is left.
RECURSIVE FilterPatterns(_, _, _)
FilterPatterns(pats, source, id) ==
  IF pats = <<>> THEN <<>>
  ELSE (IF Head(pats).pattern # source THEN <<Head(pats)>>
        ELSE IF WithoutId(Head(pats).callbacks, id) = <<>> THEN <<>>
        ELSE <<[Head(pats) EXCEPT !.callbacks = WithoutId(@, id)]>>)
         \o FilterPatterns(Tail(pats), source, id)

\* One round of unsubscribe's forEach.
UnsubscribeOne(H, e, id) ==
  IF IncludesStar(e)
  THEN [H EXCEPT !.patterns = FilterPatterns(@, wildcardToRegExp(e), id),
                 !.cache = updateCacheWithPattern(@, wildcardToRegExp(e), id)]
  ELSE IF e \notin DOMAIN H.events THEN H
  ELSE [H EXCEPT !.events = SetKey(@, e, WithoutId(H.events[e], id)),
                 !.cache = updateCache(@, e, id)]
RECURSIVE UnsubscribeAll(_, _, _)
UnsubscribeAll(H, es, id) ==
  IF es = <<>> THEN H
  ELSE UnsubscribeAll(UnsubscribeOne(H, Head(es), id), Tail(es), id)

\* patterns.filter(({pattern}) => pattern.test(event)).flatMap(p => p.callbacks)
RECURSIVE MatchedPatterns(_, _)
MatchedPatterns(pats, event) ==
  IF pats = <<>> THEN <<>>
  ELSE (IF Test(Head(pats).pattern, event) THEN Head(pats).callbacks ELSE <<>>)
         \o MatchedPatterns(Tail(pats), event)

\* The subscriptions dispatch calls for an event: the cached list when the
\* cache has the event, the direct and the matching ones otherwise.
AllCallbacks(H, event) ==
  IF event \in DOMAIN H.cache THEN H.cache[event]
  ELSE OrEmpty(H.events, event) \o MatchedPatterns(H.patterns, event)
\* callback(...data, id): the call made, and what the callback answers.
Invocation(sub, data) == [callback |-> sub[1], args |-> data \o <<sub[2]>>]
Answer(call) == <<call.callback, call.args>>

\* The handler object, and the record of no dispatch.
Handler == [events |-> events, patterns |-> patterns, cache |-> cache]
NoDispatch == [event |-> <<>>, data |-> <<>>, calls |-> <<>>, returned |-> <<>>]

\* The subscriptions made and not unsubscribed, as a bag of
\* <<event or pattern, callback, id>>.
SubscriptionsOf(es, sub) ==
  [t \in {<<es[i], sub[1], sub[2]>> : i \in 1..Len(es)} |->
     Cardinality({i \in 1..Len(es) : es[i] = t[1]})]
Leaves(t, es, id) == t[3] = id /\ \E i \in 1..Len(es) : es[i] = t[1]
Unsubscribed(bag, es, id) ==
  [t \in {x \in DOMAIN bag : ~Leaves(x, es, id)} |-> bag[t]]
\* What an unsubscribe removes: each subscription with the events whose
\* cached list held it.
Removal(bag, c, es, id) ==
  {[s |-> t[1], callback |-> t[2], id |-> t[3],
    cached |-> {e \in DOMAIN c :
                  /\ IF IncludesStar(t[1]) THEN Test(wildcardToRegExp(t[1]), e)
                     ELSE t[1] = e
                  /\ \E i \in 1..Len(c[e]) : c[e][i] = <<t[2], t[3]>>}]
     : t \in {x \in DOMAIN bag : Leaves(x, es, id)}}

HandlerInit ==
  /\ events = <<>>
  /\ patterns = <<>>
  /\ cache = <<>>
  /\ subscribed = EmptyBag
  /\ removed = {}
  /\ dispatched = NoDispatch

Became(H) ==
  /\ events' = H.events
  /\ patterns' = H.patterns
  /\ cache' = H.cache

\* subscribe(eventString, callback, id)
subscribe(eventString, callback, id) ==
  /\ BagCardinality(subscribed) + Len(SplitEvents(eventString, <<>>))
       <= MaxSubscriptions
  /\ Became(SubscribeAll(Handler, SplitEvents(eventString, <<>>), <<callback, id>>))
  /\ subscribed' =
       subscribed (+) SubscriptionsOf(SplitEvents(eventString, <<>>), <<callback, id>>)
  /\ removed' = {}
  /\ dispatched' = NoDispatch
  /\ UNCHANGED besidesHandler

\* unsubscribe(eventString, id)
unsubscribe(eventString, id) ==
  /\ Became(UnsubscribeAll(Handler, SplitEvents(eventString, <<>>), id))
  /\ subscribed' = Unsubscribed(subscribed, SplitEvents(eventString, <<>>), id)
  /\ removed' = Removal(subscribed, cache, SplitEvents(eventString, <<>>), id)
  /\ dispatched' = NoDispatch
  /\ UNCHANGED besidesHandler

\* dispatch(event, ...data).  The callbacks run before the first await, so
\* the call is one step; the promise resolves with their answers.
Dispatched(event, data, subs) ==
  [event |-> event,
   data |-> data,
   calls |-> [i \in 1..Len(subs) |-> Invocation(subs[i], data)],
   returned |-> [i \in 1..Len(subs) |-> Answer(Invocation(subs[i], data))]]
dispatch(event, data) ==
  /\ dispatched' = Dispatched(event, data, AllCallbacks(Handler, event))
  /\ cache' = SetKey(cache, event, AllCallbacks(Handler, event))
  /\ UNCHANGED <<events, patterns, subscribed, removed>>
  /\ UNCHANGED besidesHandler

HandlerNext ==
  \/ \E s \in EventStrings, f \in Callbacks, id \in Ids : subscribe(s, f, id)
  \/ \E s \in EventStrings, id \in Ids : unsubscribe(s, id)
  \/ \E e \in EventNames, d \in Payloads : dispatch(e, d)


\* ------------------------------------------------------------------
\* FetchQueue (src/src/fetch-queue.ts).  The queue is the list of its
\* entries in the order of their keys, which is the order in which they
\* were added; a promise is known by its place in promises, a call of the
\* fetch function by its place in calls.

\* The urls and the options callers ask for: no options, and the same two
\* options written in either order.
Urls == {<<"u">>, <<"w">>}
Options ==
  {Undef,
   Obj(<<Key("a"), Key("b")>>, <<Num(1), Num(2)>>),
   Obj(<<Key("b"), Key("a")>>, <<Num(2), Num(1)>>)}
MaxRequests == 3

\* md5(text): the digest, taken to differ for different texts.
md5(text) == <<"md5">> \o text
\* createHash: md5(url + JSON.stringify(options || {}))
createHash(url, options) ==
  md5(url \o StringifyTree(IF Truthy(options) THEN options ELSE EmptyObj))

\* The place in the queue of the entry under the hash, 0 without one.
QueueAt(q, hash) ==
  IF \E i \in 1..Len(q) : q[i].hash = hash
  THEN CHOOSE i \in 1..Len(q) : q[i].hash = hash
  ELSE 0
\* delete this.queue[hash]
RECURSIVE QueueWithout(_, _)
QueueWithout(q, hash) ==
  IF q = <<>> THEN <<>>
  ELSE (IF Head(q).hash = hash THEN <<>> ELSE <<Head(q)>>)
         \o QueueWithout(Tail(q), hash)

\* No call of the fetch function is awaited.
NoFlight == [hash |-> <<>>, call |-> 0, settled |-> "none"]

\* The loop of runQueue that leaves isRunning set when it ends.
StartsAndStays(q) ==
  IF q # <<>>
  THEN /\ flight' = [hash |-> q[1].hash, call |-> Len(calls) + 1, settled |-> "no"]
       /\ calls' = Append(calls, [url |-> q[1].url, options |-> q[1].options])
       /\ isRunning' = TRUE
  ELSE /\ flight' = NoFlight
       /\ UNCHANGED <<isRunning, calls>>

\* The body of runQueue's loop up to its await: with the queue q, the
\* first entry's request is handed to the fetch function and awaited; with
\* an empty queue the loop ends and isRunning is cleared.
Starts(q) ==
  IF q # <<>>
  THEN /\ flight' = [hash |-> q[1].hash, call |-> Len(calls) + 1, settled |-> "no"]
       /\ calls' = Append(calls, [url |-> q[1].url, options |-> q[1].options])
       /\ isRunning' = TRUE
  ELSE /\ flight' = NoFlight
       /\ isRunning' = FALSE
       /\ UNCHANGED calls

\* addRequest(url, options): the promise joins the entry of its hash, or a
\* new entry is queued and runQueue called, which returns at once when the
\* queue is running.
Joined(q, i, p) ==
  [q EXCEPT ![i].resolve = Append(@, p), ![i].reject = Append(@, p)]
\* A new entry put before the others.
QueuedFirst(q, url, options, p) ==
  <<[hash |-> createHash(url, options), url |-> url,
     options |-> options, resolve |-> <<p>>, reject |-> <<p>>]>> \o q
Queued(q, url, options, p) ==
  Append(q, [hash |-> createHash(url, options), url |-> url,
             options |-> options, resolve |-> <<p>>, reject |-> <<p>>])
addRequest(url, options) ==
  /\ Len(promises) < MaxRequests
  /\ promises' =
       Append(promises,
              [url |-> url, options |-> options, state |-> <<"pending">>,
               during |-> {i \in 1..Len(promises) :
                             promises[i].state = <<"pending">>}])
  /\ IF QueueAt(queue, createHash(url, options)) # 0
     THEN /\ queue' = Joined(queue, QueueAt(queue, createHash(url, options)),
                             Len(promises) + 1)
          /\ UNCHANGED <<isRunning, flight, calls>>
     ELSE /\ queue' = Queued(queue, url, options, Len(promises) + 1)
          /\ IF isRunning THEN UNCHANGED <<isRunning, flight, calls>>
             ELSE Starts(queue')
  /\ UNCHANGED besidesQueue

\* The promise the fetch function returned is fulfilled with a response or
\* rejected with an error (or the function threw, or returned a plain
\* value): runQueue's continuation is then due.
fetchSettles(with) ==
  /\ flight.settled = "no"
  /\ flight' = [flight EXCEPT !.settled = with]
  /\ UNCHANGED <<queue, isRunning, promises, calls>>
  /\ UNCHANGED besidesQueue

\* The promises of the list settled with a value.
Settled(ps, list, value) ==
  [i \in 1..Len(ps) |->
     IF \E j \in 1..Len(list) : list[j] = i /\ ps[i].state = <<"pending">>
     THEN [ps[i] EXCEPT !.state = value]
     ELSE ps[i]]

\* runQueue after its await: every resolve of the entry is called with the
\* response, or every reject with the error, the entry is deleted and the
\* loop goes round.
runQueue ==
  /\ flight.settled \in {"ok", "err"}
  /\ promises' =
       IF flight.settled = "ok"
       THEN Settled(promises, queue[QueueAt(queue, flight.hash)].resolve,
                    <<"fulfilled", flight.call>>)
       ELSE Settled(promises, queue[QueueAt(queue, flight.hash)].reject,
                    <<"rejected", flight.call>>)
  /\ queue' = QueueWithout(queue, flight.hash)
  /\ Starts(queue')
  /\ UNCHANGED besidesQueue

QueueInit ==
  /\ queue = <<>>
  /\ isRunning = FALSE
  /\ flight = NoFlight
  /\ promises = <<>>
  /\ calls = <<>>

QueueNext ==
  \/ \E url \in Urls, options \in Options : addRequest(url, options)
  \/ \E with \in {"ok", "err"} : fetchSettles(with)
  \/ runQueue

\* ------------------------------------------------------------------
\* deepMerge with its configuration (object-mutation): useConfig holds the
\* fixer deepMerge.setConfig installed, or none.

\* The fixers callers install: one that always answers with a replacement,
\* one that answers only for a source that has the key x, one that never
\* answers (it returns undefined) and one that throws.
NoFixer == "none"
Fixers == {"always", "forX", "never", "throws"}
Replacement == Obj1(<<"f", "i", "x", "e", "d">>, Bool(TRUE))
\* The fixer answers for the source.
Answers(fix, h, source) ==
  \/ fix = "always"
  \/ fix = "forX" /\ IsObject(h, source) /\ OwnProp(h, source, Key("x")) # Undef

\* fixValue after lines 52-55: what useConfig.fix(target, source) returns,
\* undefined when no fixer is configured.
FixValue(fix, h, source) ==
  IF fix = "throws" THEN [x |-> "throw", h |-> h, v |-> Undef]
  ELSE IF Answers(fix, h, source)
  THEN [x |-> "ok", h |-> Build(h, Replacement).h, v |-> Build(h, Replacement).v]
  ELSE [x |-> "ok", h |-> h, v |-> Undef]

RECURSIVE EffectiveDeepMergeFix(_, _, _, _)
RECURSIVE MergeFixKeys(_, _, _, _, _)

\* One key of the source under a fixer: the nested call's heap is kept,
\* the value it returns is dropped.
MergeFixKey(fix, target, source, keys, sv, slot) ==
  LET rest(m) ==
        IF m.x # "ok" THEN [x |-> m.x, h |-> m.h]
        ELSE MergeFixKeys(fix, m.h, target, source, Tail(keys))
  IN IF IsObject(slot, sv)
     THEN rest(EffectiveDeepMergeFix(fix, slot, GetProp(slot, target, Head(keys)),
                                     <<sv>>))
     ELSE rest([x |-> "ok", h |-> slot])
\* for (const key in source) of effectiveDeepMerge.
MergeFixKeys(fix, h, target, source, keys) ==
  IF keys = <<>> THEN [x |-> "ok", h |-> h]
  ELSE LET at(sv) ==
             MergeFixKey(fix, target, source, keys, sv,
                         IF IsObject(h, sv)
                         THEN MergeSlot(h, target, Head(keys), Alloc(h, EmptyObj))
                         ELSE IF sv.t # "undef"
                         THEN HeapSet(h, target, Head(keys), sv)
                         ELSE h)
       IN at(GetProp(h, source, Head(keys)))

\* effectiveDeepMerge(target, ...sources) with the fixer fix configured:
\* how it ends, the heap, and the value returned.
EffectiveDeepMergeFix(fix, h, target, sources) ==
  IF sources = <<>> THEN [x |-> "ok", h |-> h, v |-> target]
  ELSE LET next(m) ==
             IF m.x # "ok" THEN [x |-> m.x, h |-> m.h, v |-> Undef]
             ELSE EffectiveDeepMergeFix(fix, m.h, target, Tail(sources))
           fixed(fv) ==
             IF fv.x # "ok" THEN fv
             ELSE IF fv.v # Undef
             THEN EffectiveDeepMergeFix(fix, fv.h, fv.v, Tail(sources))
             ELSE IF IsObject(h, target) /\ IsObject(h, Head(sources))
             THEN next(MergeFixKeys(fix, h, target, Head(sources),
                                    h[Head(sources).a].k))
             ELSE next([x |-> "ok", h |-> h])
       IN fixed(FixValue(fix, h, Head(sources)))

\* The trees of a call's arguments laid out in a heap, one after another.
RECURSIVE BuildAll(_, _, _)
BuildAll(h, trees, ptrs) ==
  IF trees = <<>> THEN [h |-> h, v |-> ptrs]
  ELSE BuildAll(Build(h, Head(trees)).h, Tail(trees),
                Append(ptrs, Build(h, Head(trees)).v))

\* The targets and the sources callers merge.
MergeTargets ==
  {EmptyObj, Obj1(Key("a"), EmptyObj), Obj1(Key("a"), Num(1)),
   Obj(<<Key("a"), Key("b")>>, <<Obj1(Key("y"), Num(3)), Num(1)>>)}
MergeSources ==
  {Obj1(Key("b"), Num(2)), Obj1(Key("x"), Num(1)),
   Obj1(Key("a"), Obj1(Key("x"), Num(1))),
   Obj1(Key("a"), Obj1(Key("z"), Num(4)))}
SourceLists == {<<s>> : s \in MergeSources} \cup {<<s, t>> : s, t \in MergeSources}

\* The record of no deepMerge call.
NoMerge == [config |-> NoFixer, target |-> Undef, sources |-> <<>>,
            x |-> "none", result |-> Undef]

\* deepMerge(target, ...sources): the configuration is emptied when
\* effectiveDeepMerge has returned.
Merged(config, target, sources, out) ==
  [config |-> config, target |-> target, sources |-> sources, x |-> out.x,
   result |-> IF out.x = "ok" THEN Reify(out.h, out.v) ELSE Undef]
deepMerge(target, sources) ==
  LET laid(b) ==
        Merged(useConfig, target, sources,
               EffectiveDeepMergeFix(useConfig, b.h, Head(b.v), Tail(b.v)))
  IN /\ merged' = laid(BuildAll(<<>>, <<target>> \o sources, <<>>))
     /\ useConfig' = IF merged'.x = "ok" THEN NoFixer ELSE useConfig
     /\ UNCHANGED besidesMerge

\* deepMerge.setConfig(config), with a fixer or with none.
setConfig(config) ==
  /\ useConfig' = config
  /\ merged' = NoMerge
  /\ UNCHANGED besidesMerge

MergeInit ==
  /\ useConfig = NoFixer
  /\ merged = NoMerge

MergeNext ==
  \/ \E config \in Fixers \cup {NoFixer} : setConfig(config)
  \/ \E target \in MergeTargets, sources \in SourceLists : deepMerge(target, sources)

Init ==
  /\ pc = "idle"
  /\ schema \in Schemas
  /\ object = Null
  /\ input = Null
  /\ given = Null
  /\ rules = NoRules
  /\ how = "none"
  /\ outcome = "none"
  /\ result = Undef
  /\ shared = FALSE
  /\ HandlerInit
  /\ QueueInit
  /\ MergeInit

\* The call ended as c says.  The schema the caller passed is the caller's
\* own object; a defaulted schema is the call's own.
Ended(c) ==
  /\ pc' = IF c.outcome = "loop" THEN "hung" ELSE "returned"
  /\ outcome' = c.outcome
  /\ result' = c.result
  /\ shared' = c.shared
  /\ object' = c.object
  /\ schema' = IF how' = "schema" THEN c.schema ELSE schema
  /\ UNCHANGED besidesResolve

\* The ways a caller passes the schema: its own schema object, none (the
\* schema is then a copy of the input made for the call), or the input
\* object itself; and what it asks to resolve in each.
Ways == {"schema", "alone", "self"}
Asked(way) == IF way = "schema" THEN Inputs ELSE Documents

\* resolveRefs(o, schema, r), resolveRefs(o, undefined, r) or
\* resolveRefs(o, o, r).
Resolve(o, r, way) ==
  /\ pc = "idle"
  /\ input' = o
  /\ given' = schema
  /\ rules' = r
  /\ how' = way
  /\ Ended(Call(o, schema, r, way))

\* The caller goes on with the schema as the call left it.
Continue ==
  /\ pc = "returned"
  /\ pc' = "idle"
  /\ object' = Null
  /\ input' = Null
  /\ given' = Null
  /\ rules' = NoRules
  /\ how' = "none"
  /\ outcome' = "none"
  /\ result' = Undef
  /\ shared' = FALSE
  /\ UNCHANGED schema
  /\ UNCHANGED besidesResolve

Next ==
  \/ \E way \in Ways : \E o \in Asked(way), r \in RuleSets : Resolve(o, r, way)
  \/ Continue

Spec == Init /\ [][Next]_vars

\* No call of resolveRefs is made or under way.
NoCall ==
  /\ pc = "idle"
  /\ schema = Null
  /\ object = Null
  /\ input = Null
  /\ given = Null
  /\ rules = NoRules
  /\ how = "none"
  /\ outcome = "none"
  /\ result = Undef
  /\ shared = FALSE

\* The EventHandler alone, under any sequence of its three operations.
HandlerStart == NoCall /\ HandlerInit /\ QueueInit /\ MergeInit
HandlerSpec == HandlerStart /\ [][HandlerNext]_vars

\* The FetchQueue alone: callers add requests while the fetch function's
\* promises settle and runQueue goes on, in any order.
QueueStart == NoCall /\ HandlerInit /\ QueueInit /\ MergeInit
QueueSpec == QueueStart /\ [][QueueNext]_vars
\* The same when every call of the fetch function settles in the end and
\* runQueue, which awaits it, is then resumed: the continuation of an await
\* is a job the host runs once the awaited promise is settled.
QueueFairSpec ==
  /\ QueueStart
  /\ [][QueueNext]_vars
  /\ WF_vars(\E with \in {"ok", "err"} : fetchSettles(with))
  /\ WF_vars(runQueue)

\* deepMerge and its configuration alone: callers install fixers and merge.
MergeStart == NoCall /\ HandlerInit /\ QueueInit /\ MergeInit
MergeSpec == MergeStart /\ [][MergeNext]_vars

\* The bounds of the model are never what ends a call.
WithinBounds == outcome # "bound"

(***************************************************************************)
(* Reading a tree: what a reference names in the tree the caller passed,   *)
(* by the keys of its mappings, the indices and the length of its          *)
(* sequences and strings.                                                  *)
(***************************************************************************)
\* The member key of a mapping tree, undefined when it has none.
Member(tree, key) ==
  IF tree.t = "obj" /\ KeyPos(tree, key) # 0 THEN tree.v[KeyPos(tree, key)] ELSE Undef

TreeProp(tree, key) ==
  CASE tree.t = "obj" -> Member(tree, key)
    [] tree.t = "arr" -> SeqProp(tree.e, key)
    [] tree.t = "str" -> SeqProp([i \in 1..Len(tree.s) |-> Str(<<tree.s[i]>>)], key)
    [] OTHER -> Undef

\* The value at a path, undefined when a segment is missing.
RECURSIVE TreeGet(_, _)
TreeGet(tree, path) ==
  IF path = <<>> THEN tree ELSE TreeGet(TreeProp(tree, Head(path)), Tail(path))

\* The paths of the ${...} runs of a string from position i on.
RECURSIVE RunPaths(_, _)
RunPaths(s, i) ==
  IF NextMatch(s, i) = 0 THEN <<>>
  ELSE <<SubSeq(s, NextMatch(s, i) + 2, MatchEnd(s, NextMatch(s, i)) - 1)>>
       \o RunPaths(s, MatchEnd(s, NextMatch(s, i)) + 1)

\* The schema absolute references are looked up in during the last call.
Root == IF how = "schema" THEN given ELSE input
IsTrigger(s) == Truthy(Member(rules, s))
IsRelative(path) == StartsWith(path, <<".", "/">>)
Segments(path) == Split(IF IsRelative(path) THEN Substring(path, 2) ELSE path, "/")

\* The path of a reference misses in its lookup root: ctx is the Context,
\* undefined when none is in scope.
Misses(path, ctx) ==
  IF IsRelative(path)
  THEN ctx.t = "undef" \/ TreeGet(ctx, Segments(path)) = Undef
  ELSE TreeGet(Root, Segments(path)) = Undef

\* A $path scalar that is no trigger and cannot be resolved, and a string
\* of text and runs none of which can be resolved.
ScalarFails(s, ctx) ==
  IsDollarRef(s) /\ ~IsTrigger(s) /\ Misses(Substring(s, 1), ctx)
TextFails(s, ctx) ==
  /\ ~IsDollarRef(s)
  /\ RunPaths(s, 1) # <<>>
  /\ \A i \in 1..Len(RunPaths(s, 1)) : Misses(RunPaths(s, 1)[i], ctx)
Fails(v, ctx) == v.t = "str" /\ (ScalarFails(v.s, ctx) \/ TextFails(v.s, ctx))

\* The names a string mentions that a value inherits rather than owns.
NamesInherited(v) ==
  /\ v.t = "str"
  /\ \E i \in 1..(Len(v.s) - Len(ConstructorKey) + 1) :
        SubSeq(v.s, i, i + Len(ConstructorKey) - 1) = ConstructorKey

\* The members and elements of a tree, as <<value, key>>, the key empty
\* for an element.
Places(tree) ==
  IF tree.t = "obj" THEN {<<tree.v[i], tree.k[i]>> : i \in 1..Len(tree.k)}
  ELSE IF tree.t = "arr" THEN {<<tree.e[i], <<>>>> : i \in 1..Len(tree.e)}
  ELSE {}

\* The value v stands in the result where it stood in the input: under the
\* same key of a mapping, or as an element of a sequence.
Kept(v, key) ==
  /\ outcome = "ok"
  /\ IF key = <<>> THEN result.t = "arr" /\ \E j \in 1..Len(result.e) : result.e[j] = v
     ELSE Member(result, key) = v

\* The deferred fields of the template the mapping v expands, as
\* <<value, field>>, with the Context they are resolved in when it is known:
\* the fields of a template of plain values, with the overrides.
Template(v) == TreeGet(Root, Segments(Substring(Member(v, RefKey).s, 1)))
Expands(v) ==
  /\ v.t = "obj" /\ Member(v, RefKey).t = "str" /\ IsDollarRef(Member(v, RefKey).s)
  /\ ~IsTrigger(Member(v, RefKey).s)
  /\ Template(v).t = "obj" /\ Member(Template(v), DotKey).t = "obj"
\* A relative path whose first segment no field of the template, no
\* override and no deferred field supplies.
Unsupplied(path, v) ==
  /\ IsRelative(path)
  /\ \A k \in {Template(v).k[i] : i \in 1..Len(Template(v).k)}
             \cup {Split(v.k[i], "/")[1] : i \in 1..Len(v.k)}
             \cup {Member(Template(v), DotKey).k[i] :
                     i \in 1..Len(Member(Template(v), DotKey).k)} :
        k # Segments(path)[1]
FieldFails(s, v) ==
  \/ IsDollarRef(s) /\ ~IsTrigger(s) /\ Unsupplied(Substring(s, 1), v)
  \/ /\ ~IsDollarRef(s)
     /\ RunPaths(s, 1) # <<>>
     /\ \A i \in 1..Len(RunPaths(s, 1)) : Unsupplied(RunPaths(s, 1)[i], v)

\* The unresolvable references among those ok admits stand unchanged in the
\* result: those of a deferred block, and those of the input itself.
FieldsDegrade(ok(_)) ==
  \A p \in Places(input) :
    Expands(p[1]) =>
      \A f \in Places(Member(Template(p[1]), DotKey)) :
        (f[1].t = "str" /\ FieldFails(f[1].s, p[1]) /\ ok(f[1])) =>
          outcome = "ok" /\ Member(Member(result, p[2]), f[2]) = f[1]
\* A member that a field of the input's own deferred block replaces is left
\* out.
PlacesDegrade(ok(_)) ==
  \A p \in Places(input) :
    (Fails(p[1], Undef) /\ ok(p[1]) /\ Member(Member(input, DotKey), p[2]) = Undef) =>
      Kept(p[1], p[2])
AnyName(v) == TRUE

\* C2: an unresolvable reference degrades to its text and nothing is
\* thrown.  Every $path scalar that is no trigger and every string of
\* ${path} runs, when its paths miss in the schema or it is relative and the
\* input gives no Context, stands unchanged in the result, and so does a
\* relative reference of a deferred block that no field supplies.
DegradesInPlace == outcome # "none" => PlacesDegrade(AnyName) /\ FieldsDegrade(AnyName)

\* The same for the references that name no inherited property.
OwnNames(v) == ~NamesInherited(v)
DegradesOwnNames == outcome # "none" => PlacesDegrade(OwnNames) /\ FieldsDegrade(OwnNames)

\* An absolute reference that is no trigger.
IsAbsRef(s) == IsDollarRef(s) /\ ~StartsWith(s, <<"$", ".", "/">>) /\ ~IsTrigger(s)

\* The value a chain of at most n + 1 absolute references that starts with
\* the reference s ends in: undefined when a path of the chain misses.
RECURSIVE ChainEnd(_, _)
ChainStep(v, n) ==
  IF v.t = "str" /\ n > 0 /\ IsAbsRef(v.s) THEN ChainEnd(v.s, n - 1) ELSE v
ChainEnd(s, n) == ChainStep(TreeGet(Root, Segments(Substring(s, 1))), n)

\* A value that holds no reference: no string with a $ in it, no mapping
\* with a ref or a "." member.
RECURSIVE PlainTree(_)
PlainTree(tree) ==
  CASE tree.t = "str" -> \A i \in 1..Len(tree.s) : tree.s[i] # "$"
    [] tree.t = "arr" -> \A i \in 1..Len(tree.e) : PlainTree(tree.e[i])
    [] tree.t = "obj" ->
         /\ KeyPos(tree, RefKey) = 0 /\ KeyPos(tree, DotKey) = 0
         /\ \A i \in 1..Len(tree.v) : PlainTree(tree.v[i])
    [] OTHER -> TRUE

\* A tree with every sequence that is an element of a sequence replaced by
\* its elements.
RECURSIVE Flat(_)
Spliced(elems) ==
  ConcatAll([i \in 1..Len(elems) |->
               IF elems[i].t = "arr" THEN elems[i].e ELSE <<elems[i]>>])
Flat(tree) ==
  CASE tree.t = "obj" -> ObjCell(tree.k, [i \in 1..Len(tree.v) |-> Flat(tree.v[i])])
    [] tree.t = "arr" -> ArrCell(Spliced([i \in 1..Len(tree.e) |-> Flat(tree.e[i])]))
    [] OTHER -> tree

\* The members of the input that are absolute references whose chain ends
\* in a value that holds no reference, as <<end value, key>>.  A member that
\* a field of the input's own deferred block replaces is none of them.
ChainPlaces ==
  {<<ChainEnd(p[1].s, MaxChain), p[2]>> :
     p \in {q \in Places(input) :
              /\ q[2] # <<>> /\ q[1].t = "str" /\ IsAbsRef(q[1].s)
              /\ Member(Member(input, DotKey), q[2]) = Undef
              /\ ChainEnd(q[1].s, MaxChain) # Undef
              /\ PlainTree(ChainEnd(q[1].s, MaxChain))}}

\* C4 as stated: a chain of absolute references that ends in a
\* non-reference value v resolves to v.
ChainResolvesToEnd ==
  outcome # "none" =>
    \A p \in ChainPlaces : outcome = "ok" /\ Member(result, p[2]) = p[1]

\* C4, amended: a chain of absolute references that ends in a non-reference
\* value v resolves to v with every sequence nested in a sequence spliced
\* into it, which is v itself when v nests no sequences.
ChainResolvesFlat ==
  outcome # "none" =>
    \A p \in ChainPlaces : outcome = "ok" /\ Member(result, p[2]) = Flat(p[1])

\* A chain of MaxChain references has been resolved to the value at its
\* end, whose nested sequences were spliced.
ChainResolvedSeen ==
  /\ outcome = "ok"
  /\ input = Obj1(Key("a"), Str(Abs(<<Link("m", 1)>>)))
  /\ ChainPlaces = {<<ChainEnds.m, Key("a")>>}
  /\ result = Obj1(Key("a"), Arr(<<Num(1), Num(2), Num(3)>>))

\* The value the run ${path} resolves to: what its path finds in the
\* schema, followed through a chain of absolute references.
RunValue(path) == ChainStep(TreeGet(Root, Segments(path)), MaxChain)
\* The text that stands for a value: a string as it is, any other value
\* serialized.
TextOf(v) == IF v.t = "str" THEN v.s ELSE StringifyTree(Flat(v))
\* The text a string with runs resolves to, from position i on, where no
\* Context is in scope: the text between the runs, and for each run its
\* own text when its path misses and the text of its value otherwise.
RECURSIVE Interpolated(_, _)
RunPiece(s, m, j) ==
  IF Misses(SubSeq(s, m + 2, j - 1), Undef) THEN SubSeq(s, m, j)
  ELSE TextOf(RunValue(SubSeq(s, m + 2, j - 1)))
InterpolatedFrom(s, i, m, j) ==
  SubSeq(s, i, m - 1) \o RunPiece(s, m, j) \o Interpolated(s, j + 1)
Interpolated(s, i) ==
  IF NextMatch(s, i) = 0 THEN SubSeq(s, i, Len(s))
  ELSE InterpolatedFrom(s, i, NextMatch(s, i), MatchEnd(s, NextMatch(s, i)))

\* A string of text and runs, each run's path missing or resolving to a
\* value that holds no reference, none through an inherited property.
IsText(v) ==
  /\ v.t = "str" /\ ~IsDollarRef(v.s) /\ RunPaths(v.s, 1) # <<>>
  /\ ~NamesInherited(v)
  /\ \A i \in 1..Len(RunPaths(v.s, 1)) :
       \/ Misses(RunPaths(v.s, 1)[i], Undef)
       \/ PlainTree(RunValue(RunPaths(v.s, 1)[i]))

ExpandsMapping(v) ==
  /\ v.t = "obj" /\ Member(v, RefKey).t = "str" /\ IsAbsRef(Member(v, RefKey).s)
  /\ Template(v).t = "obj"
\* The fields of the deferred block of a template, none without a block.
DeferredKeys(T) ==
  IF Member(T, DotKey).t = "obj"
  THEN {Member(T, DotKey).k[i] : i \in 1..Len(Member(T, DotKey).k)}
  ELSE {}
\* The overrides of v the claims speak of, as <<key, value>>: plain values
\* under keys that are no paths and no deferred fields of the template.
OverridesOf(v) ==
  {<<v.k[i], v.v[i]>> :
     i \in {j \in 1..Len(v.k) :
              /\ v.k[j] # RefKey
              /\ \A c \in 1..Len(v.k[j]) : v.k[j][c] # "/"
              /\ v.k[j] \notin DeferredKeys(Template(v))
              /\ PlainTree(v.v[j])}}
\* The override o laid over the template value t: mappings are merged key
\* by key, anything else is replaced by the override.
RECURSIVE Overlaid(_, _)
OverlaidKeys(t, o) ==
  t.k \o SelectSeq(o.k, LAMBDA k : KeyPos(t, k) = 0)
Overlaid(t, o) ==
  IF t.t = "obj" /\ o.t = "obj"
  THEN ObjCell(OverlaidKeys(t, o),
               [i \in 1..Len(OverlaidKeys(t, o)) |->
                  IF KeyPos(o, OverlaidKeys(t, o)[i]) = 0
                  THEN Member(t, OverlaidKeys(t, o)[i])
                  ELSE Overlaid(Member(t, OverlaidKeys(t, o)[i]),
                                Member(o, OverlaidKeys(t, o)[i]))])
  ELSE o
\* The mapping override o meets a template value t that is a truthy scalar
\* or a sequence.
OnScalar(t, o) == o.t = "obj" /\ t.t \notin {"obj", "undef"} /\ Truthy(t)

\* In every expansion the result has the keys of the template but "." and
\* carries the overrides, of the pairs (template value, override) in scope.
OverridesKept(scope(_, _)) ==
  \A p \in Places(input) :
    (p[2] # <<>> /\ ExpandsMapping(p[1])) =>
      /\ \A i \in 1..Len(Template(p[1]).k) :
           Template(p[1]).k[i] # DotKey =>
             Member(Member(result, p[2]), Template(p[1]).k[i]) # Undef
      /\ \A o \in OverridesOf(p[1]) :
           scope(Member(Template(p[1]), o[1]), o[2]) =>
             Member(Member(result, p[2]), o[1])
               = Overlaid(Member(Template(p[1]), o[1]), o[2])
AnyTypes(t, o) == TRUE
NotOnScalar(t, o) == ~OnScalar(t, o)

\* C6: template expansion, overrides win.  The result of expanding
\* {ref: r, ...overrides} over a template mapping T has every key of T
\* except "." and every override key, and at every override key the
\* override's value, a mapping-valued override merged key by key into the
\* template's mapping, whatever the types of the two values.
OverridesWin == outcome = "ok" => OverridesKept(AnyTypes)

\* The same but for a mapping-valued override of a truthy scalar or
\* sequence of the template.
OverridesWinElse == outcome = "ok" => OverridesKept(NotOnScalar)

\* The ref-bearing mappings of the input, as <<mapping, key in the result>>:
\* the members of the input, and the fields of the input's own deferred
\* block, which are resolved with the input's fields as their Context.
MemberSites == {p \in Places(input) : p[2] # <<>> /\ p[2] # DotKey}
BlockSites == Places(Member(input, DotKey))

\* The override of key k in the ref-bearing mapping v, undefined without.
OverrideOf(v, k) == Member(v, k)
\* Some override of v is a path that starts with k.
PathInto(v, k) ==
  \E i \in 1..Len(v.k) : v.k[i] # k /\ Split(v.k[i], "/")[1] = k
\* The value the merged object has at k: the override laid over the
\* template default, the default where k is not overridden.
MergedAt(v, k) ==
  IF OverrideOf(v, k).t = "undef" THEN Flat(Member(Template(v), k))
  ELSE Overlaid(Flat(Member(Template(v), k)), OverrideOf(v, k))
\* k is a key the claim speaks of: a field of the template or an override,
\* of plain values, that is no deferred field and that no path reaches into.
MergedKey(v, k) ==
  /\ k \notin DeferredKeys(Template(v)) /\ k # RefKey /\ ~PathInto(v, k)
  /\ Member(Template(v), k).t # "undef" \/ OverrideOf(v, k).t # "undef"
  /\ PlainTree(Member(Template(v), k)) /\ PlainTree(OverrideOf(v, k))
\* The key a deferred field's value refers to when the value is $./k or a
\* text with the one run ${./k}; the empty key otherwise.
OneRun(s) == Len(RunPaths(s, 1)) = 1 /\ IsRelative(RunPaths(s, 1)[1])
ReferredKey(s) ==
  IF StartsWith(s, <<"$", ".", "/">>) THEN Substring(s, 3)
  ELSE IF ~IsDollarRef(s) /\ OneRun(s) THEN Substring(RunPaths(s, 1)[1], 2)
  ELSE <<>>
\* What the field's value yields when its reference yields val.
Yield(s, val) ==
  IF IsDollarRef(s) THEN val
  ELSE Str(SubSeq(s, 1, NextMatch(s, 1) - 1) \o TextOf(val)
             \o SubSeq(s, MatchEnd(s, NextMatch(s, 1)) + 1, Len(s)))

\* In every expansion at the sites given, a deferred field that refers to
\* the key k of the merged object carries what the merged object has at k,
\* for the pairs (template default, override) in scope.
DeferredSee(sites, scope(_, _)) ==
  \A p \in sites :
    Expands(p[1]) =>
      \A f \in Places(Member(Template(p[1]), DotKey)) :
        ( /\ f[1].t = "str" /\ ReferredKey(f[1].s) # <<>>
          /\ MergedKey(p[1], ReferredKey(f[1].s))
          /\ OverrideOf(p[1], f[2]).t = "undef"
          /\ scope(Member(Template(p[1]), ReferredKey(f[1].s)),
                   OverrideOf(p[1], ReferredKey(f[1].s))) ) =>
          Member(Member(result, p[2]), f[2])
            = Yield(f[1].s, MergedAt(p[1], ReferredKey(f[1].s)))

\* C7: the deferred block sees the merged object.  When a ref-bearing
\* mapping expands a template that has a "." block, a relative reference
\* $./k or ${./k} of the block yields the override value for an overridden
\* key k and the template default for a key that is not overridden.
DeferredSeesMerged ==
  outcome = "ok" => DeferredSee(MemberSites \cup BlockSites, AnyTypes)

\* The same for the ref-bearing mappings that no Context encloses.
DeferredSeesMergedApart == outcome = "ok" => DeferredSee(MemberSites, AnyTypes)

\* The same, but for a mapping-valued override of a truthy scalar or
\* sequence, for the ref-bearing mappings that no Context encloses.
DeferredSeesMergedElse == outcome = "ok" => DeferredSee(MemberSites, NotOnScalar)

\* The same, but for such an override, with the ref-bearing mappings that a
\* Context encloses.
DeferredSeesMergedWithin ==
  outcome = "ok" => DeferredSee(MemberSites \cup BlockSites, NotOnScalar)

\* The deferred field k of the template of v, undefined without.
DeferredField(v, k) == Member(Member(Template(v), DotKey), k)
RefersOn(v, k) ==
  /\ k \in DeferredKeys(Template(v)) /\ DeferredField(v, k).t = "str"
  /\ ReferredKey(DeferredField(v, k).s) # <<>>
\* Following the references of the deferred fields from k for at most n
\* steps ends at a plain deferred field or at a key of the merged object.
RECURSIVE Settles(_, _, _)
Settles(v, k, n) ==
  IF RefersOn(v, k)
  THEN n > 0 /\ Settles(v, ReferredKey(DeferredField(v, k).s), n - 1)
  ELSE IF k \in DeferredKeys(Template(v)) THEN PlainTree(DeferredField(v, k))
  ELSE MergedKey(v, k)
\* The fully resolved value of k: a deferred field yields what the field it
\* refers to resolves to, a plain deferred field is its own value, and any
\* other key is read in the merged object.
RECURSIVE DeferredValue(_, _, _)
DeferredValue(v, k, n) ==
  IF RefersOn(v, k) /\ n > 0
  THEN Yield(DeferredField(v, k).s,
             DeferredValue(v, ReferredKey(DeferredField(v, k).s), n - 1))
  ELSE IF k \in DeferredKeys(Template(v)) THEN Flat(DeferredField(v, k))
  ELSE MergedAt(v, k)
\* A key is shadowed when it is a deferred field and also a field of the
\* template or an override.
Shadowed(v, k) ==
  /\ k \in DeferredKeys(Template(v))
  /\ Member(Template(v), k).t # "undef" \/ OverrideOf(v, k).t # "undef"
AnyField(v, k) == TRUE
Unshadowed(v, k) == ~Shadowed(v, k)

\* In every expansion a deferred field that refers to a deferred field in
\* scope carries that field's fully resolved value.
DeferredChain(scope(_, _)) ==
  \A p \in MemberSites :
    Expands(p[1]) =>
      \A f \in Places(Member(Template(p[1]), DotKey)) :
        ( /\ RefersOn(p[1], f[2])
          /\ ReferredKey(f[1].s) \in DeferredKeys(Template(p[1]))
          /\ Settles(p[1], f[2], MaxChain + 1)
          /\ OverrideOf(p[1], f[2]).t = "undef"
          /\ scope(p[1], ReferredKey(f[1].s)) ) =>
          Member(Member(result, p[2]), f[2])
            = DeferredValue(p[1], f[2], MaxChain + 1)

\* C8: deferred values may reference other deferred values.  In the result
\* of a template expansion, a deferred field that references by $./k or
\* ${./k} another field of the same deferred block carries that field's
\* fully resolved value, for any acyclic chain of such references and
\* whatever the order of the keys in the block.
DeferredChainResolves == outcome = "ok" => DeferredChain(AnyField)

\* The same for the deferred fields that refer to a field that is no field
\* of the template and no override.
DeferredChainResolvesElse == outcome = "ok" => DeferredChain(Unshadowed)

\* An expansion of a template whose deferred fields refer to one another
\* has returned, the chain running against the order of the keys.
DeferredChainSeen ==
  /\ outcome = "ok"
  /\ \E p \in MemberSites :
       /\ Expands(p[1]) /\ Template(p[1]) = TemplateR
       /\ Member(Member(result, p[2]), Field(1))
            = DeferredValue(p[1], Field(1), MaxChain + 1)

\* The paths a string refers to: the path of a $path scalar, the paths of
\* the ${...} runs of any other string.
PathsOf(s) == IF IsDollarRef(s) THEN <<Substring(s, 1)>> ELSE RunPaths(s, 1)
\* What a path may resolve to: for an absolute path the value in the lookup
\* root, for a relative one the value in any mapping of the scope.
Targets(path, scope) ==
  IF IsRelative(path) THEN {TreeGet(c, Segments(path)) : c \in scope}
  ELSE {TreeGet(Root, Segments(path))}
\* Every reference of the tree, followed through the values it resolves to,
\* ends within n steps: no reference leads back to itself.  The scope holds
\* the mappings a relative reference may be looked up in: the enclosing
\* mappings, their deferred blocks and the ref-bearing mappings on the way.
RECURSIVE Grounded(_, _, _)
Grounded(tree, scope, n) ==
  CASE tree.t = "str" ->
         \A i \in 1..Len(PathsOf(tree.s)) :
           \A target \in Targets(PathsOf(tree.s)[i], scope) :
             n > 0 /\ Grounded(target, scope, n - 1)
    [] tree.t = "arr" ->
         \A i \in 1..Len(tree.e) : Grounded(tree.e[i], scope, n)
    [] tree.t = "obj" ->
         \A i \in 1..Len(tree.v) :
           Grounded(tree.v[i], scope \cup {tree, Member(tree, DotKey)}, n)
    [] OTHER -> TRUE
\* The input, the schema and the arguments of the rules of the last call
\* hold no reference that leads back to itself.
Acyclic ==
  /\ Grounded(input, {}, MaxDepth)
  /\ Grounded(Root, {}, MaxDepth)
  /\ Grounded(rules, {}, MaxDepth)
\* A ref-bearing mapping in the deferred block of a template the input
\* expands, whose ref names nothing in the schema.
DanglingInBlock ==
  \E p \in MemberSites :
    /\ Expands(p[1])
    /\ \E f \in Places(Member(Template(p[1]), DotKey)) :
         /\ f[1].t = "obj" /\ Member(f[1], RefKey).t = "str"
         /\ Fails(Member(f[1], RefKey), Undef)

\* C9: termination.  For every input and schema in which no absolute or
\* relative reference, followed through the values it resolves to, leads
\* back to itself, resolveRefs terminates: the passes over the deferred
\* block reach a pass whose serialized output equals that of the pass
\* before, and the call returns or throws.
Terminates == Acyclic => pc # "hung"

\* The same when no deferred block holds a ref-bearing mapping whose ref
\* names nothing.
TerminatesElse == (Acyclic /\ ~DanglingInBlock) => pc # "hung"

\* The passes over a deferred block have run and the call has returned.
TerminatesSeen ==
  /\ pc = "returned" /\ outcome = "ok" /\ Acyclic
  /\ \E p \in MemberSites : Expands(p[1]) /\ Template(p[1]) = TemplateC

\* The strings of a tree.
RECURSIVE Strings(_)
Strings(tree) ==
  CASE tree.t = "str" -> {tree.s}
    [] tree.t = "arr" -> UNION {Strings(tree.e[i]) : i \in 1..Len(tree.e)}
    [] tree.t = "obj" -> UNION {Strings(tree.v[i]) : i \in 1..Len(tree.v)}
    [] OTHER -> {}
\* The input of the last call names the trigger of an iterate rule whose
\* item name is a key the schema had, or whose item template in the schema
\* is a ref-bearing mapping.
IterateUses(key) ==
  /\ Member(rules, key).t = "arr" /\ Len(Member(rules, key).e) = 3
  /\ Member(rules, key).e[1] = Str(TaskIterate)
  /\ key \in Strings(input)
  /\ \/ Member(given, Member(rules, key).e[3].s) # Undef
     \/ Truthy(Member(TreeGet(given, Segments(Substring(key, 1))), RefKey))
IterateWrites == \E i \in 1..Len(rules.k) : IterateUses(rules.k[i])

\* C10: the Schema is left as it was found.  After resolveRefs returns,
\* the schema the caller supplied equals its value before the call, for
\* every input and rule set, calls that run the iterate task included: no
\* binding of iterate remains, no key that existed before is lost or
\* changed.
SchemaUntouched ==
  (pc = "returned" /\ outcome = "ok" /\ how = "schema") => schema = given

\* The same for the calls that run no iterate rule whose item name is a key
\* of the schema or whose item template carries a ref.
SchemaUntouchedElse ==
  (pc = "returned" /\ how = "schema" /\ ~IterateWrites) => schema = given

\* A call that ran an iterate rule has returned and left the schema as it
\* was.
SchemaUntouchedSeen ==
  /\ pc = "returned" /\ outcome = "ok" /\ how = "schema" /\ schema = given
  /\ \E i \in 1..Len(rules.k) :
       /\ Member(rules, rules.k[i]).e[1] = Str(TaskIterate)
       /\ rules.k[i] \in Strings(input)
       /\ result # input

\* The rule of a trigger is an iterate rule [iterate, arrayRef, itemName]
\* whose arrayRef is an absolute reference to a sequence of plain values.
IterateRule(key) ==
  /\ Member(rules, key).t = "arr" /\ Len(Member(rules, key).e) = 3
  /\ Member(rules, key).e[1] = Str(TaskIterate)
  /\ Member(rules, key).e[2].t = "str" /\ IsAbsRef(Member(rules, key).e[2].s)
  /\ Member(rules, key).e[3].t = "str"
IterateArray(key) == TreeGet(Root, Segments(Substring(Member(rules, key).e[2].s, 1)))
ItemName(key) == Member(rules, key).e[3].s
ItemTemplate(key) == TreeGet(Root, Segments(Substring(key, 1)))
\* A member of an item template: a plain value, or a $path scalar into the
\* item.
IntoItem(v, name) ==
  v.t = "str" /\ IsAbsRef(v.s) /\ Head(Segments(Substring(v.s, 1))) = name
ItemMember(v, name, elem) ==
  IF IntoItem(v, name) THEN Flat(TreeGet(elem, Tail(Segments(Substring(v.s, 1)))))
  ELSE v
\* The item template T resolved with the item name bound to elem: a
\* template that expands the item itself carries the item's fields under
\* its overrides, any other one has its references into the item replaced.
Without(T, key) ==
  ObjCell(SelectSeq(T.k, LAMBDA k : k # key),
          [i \in 1..(Len(T.k) - 1) |->
             T.v[IF i < KeyPos(T, key) THEN i ELSE i + 1]])
ItemOf(T, name, elem) ==
  IF Member(T, RefKey) = Str(<<"$">> \o name)
  THEN Overlaid(elem, Without(T, RefKey))
  ELSE ObjCell(T.k, [i \in 1..Len(T.k) |-> ItemMember(T.v[i], name, elem)])
\* The item templates the claim is read for: mappings whose members are
\* plain values or references into the item, with or without a ref to the
\* item itself.
ItemShape(T, name) ==
  /\ T.t = "obj"
  /\ \A i \in 1..Len(T.k) :
       \/ PlainTree(T.v[i]) \/ IntoItem(T.v[i], name)
       \/ T.k[i] = RefKey /\ T.v[i] = Str(<<"$">> \o name)
AnyShape(T) == TRUE
NoRefShape(T) == Member(T, RefKey) = Undef

\* Every member of the input that is the trigger of an iterate rule, with
\* an item template in scope, is in the result the sequence of the items.
IterateBuilt(scope(_)) ==
  \A p \in MemberSites :
    ( /\ p[1].t = "str" /\ IterateRule(p[1].s)
      /\ IterateArray(p[1].s).t = "arr" /\ PlainTree(IterateArray(p[1].s))
      /\ ItemShape(ItemTemplate(p[1].s), ItemName(p[1].s))
      /\ scope(ItemTemplate(p[1].s)) ) =>
      /\ Member(result, p[2]).t = "arr"
      /\ Len(Member(result, p[2]).e) = Len(IterateArray(p[1].s).e)
      /\ \A i \in 1..Len(IterateArray(p[1].s).e) :
           i <= Len(Member(result, p[2]).e) =>
             Member(result, p[2]).e[i]
               = ItemOf(ItemTemplate(p[1].s), ItemName(p[1].s),
                        IterateArray(p[1].s).e[i])

\* C11: iterate.  For a rule trigger -> [iterate, arrayRef, itemName] whose
\* arrayRef resolves to an array A the task returns a sequence R with
\* |R| = |A| in which R[i] is the item template, the schema value at the
\* trigger's path, resolved with schema[itemName] bound to A[i]: every
\* element is resolved against the same item template.
IterateBuilds == outcome = "ok" => IterateBuilt(AnyShape)

\* The same for the item templates that carry no ref.
IterateBuildsElse == outcome = "ok" => IterateBuilt(NoRefShape)

\* A call has run an iterate rule over an item template without a ref.
IterateBuildsSeen ==
  /\ outcome = "ok"
  /\ \E p \in MemberSites :
       /\ p[1].t = "str" /\ IterateRule(p[1].s)
       /\ ItemShape(ItemTemplate(p[1].s), ItemName(p[1].s))
       /\ Member(ItemTemplate(p[1].s), RefKey) = Undef
       /\ Member(result, p[2]).t = "arr" /\ Len(Member(result, p[2]).e) = 2

\* A ref-bearing mapping whose ref is the path, without the $ prefix, of a
\* mapping of the schema; and the same mapping with the prefix.
BareRef(v) ==
  /\ v.t = "obj" /\ Member(v, RefKey).t = "str" /\ Member(v, RefKey).s # <<>>
  /\ Head(Member(v, RefKey).s) # "$"
  /\ TreeGet(Root, Segments(Member(v, RefKey).s)).t = "obj"
Prefixed(v) ==
  IF BareRef(v)
  THEN ObjCell(v.k, [i \in 1..Len(v.k) |->
                       IF v.k[i] = RefKey THEN Str(<<"$">> \o v.v[i].s) ELSE v.v[i]])
  ELSE v
\* The input of the last call with the prefix added to the bare refs of its
\* members, and what the same call returns for it.
PrefixedInput ==
  IF input.t = "obj"
  THEN ObjCell(input.k, [i \in 1..Len(input.k) |-> Prefixed(input.v[i])])
  ELSE input
PrefixedCall == Call(PrefixedInput, given, rules, how)

\* C12: the $ prefix is optional in ref.  For a template path p that exists
\* in the schema and any overrides, {ref: "p", ...overrides} and
\* {ref: "$p", ...overrides} resolve to the same expanded mapping.
PrefixOptional ==
  (outcome = "ok" /\ \E p \in MemberSites : BareRef(p[1])) =>
    /\ PrefixedCall.outcome = "ok"
    /\ result = PrefixedCall.result

RECURSIVE NoDotKey(_)
\* A tree without a $ reference and without a ${...} run.
Resolved(tree) ==
  \A t \in Strings(tree) : (t = <<>> \/ Head(t) # "$") /\ NextMatch(t, 1) = 0
\* What resolveRefs returns for the result of the last call and the schema
\* as the caller holds it now.
Again == Call(result, schema, NoRules, "schema")

\* C13: idempotence on fully resolved input.  For every input x and schema
\* s such that resolveRefs(x, s) has no $ reference and no ${...} run,
\* resolveRefs(resolveRefs(x, s), s) equals resolveRefs(x, s).
Idempotent ==
  ( /\ pc = "returned" /\ outcome = "ok" /\ how = "schema"
    /\ rules = NoRules /\ Resolved(result) ) =>
    Again.outcome = "ok" /\ Again.result = result

\* The same for the results that hold no "." key.
NoDotKey(tree) ==
  CASE tree.t = "obj" ->
         KeyPos(tree, DotKey) = 0 /\ \A i \in 1..Len(tree.v) : NoDotKey(tree.v[i])
    [] tree.t = "arr" -> \A i \in 1..Len(tree.e) : NoDotKey(tree.e[i])
    [] OTHER -> TRUE
IdempotentElse ==
  (pc = "returned" /\ outcome = "ok" /\ how = "schema" /\ rules = NoRules
     /\ Resolved(result) /\ NoDotKey(result)) =>
    Again.outcome = "ok" /\ Again.result = result

\* What the member val under the key k of a mapping without ref resolves
\* to, in a call with the lookup root and the rules of the last call.
AloneCall(k, val) == Call(ObjCell(<<k>>, <<val>>), Root, rules, "schema")
\* val is a resolvable reference: as a member of a mapping without ref it is
\* replaced by something else.
Resolvable(k, val) ==
  AloneCall(k, val).outcome = "ok" /\ Member(AloneCall(k, val).result, k) # val
\* The keys of the overrides of v that are no paths, no deferred fields and
\* no fields of the template.
FreshKeys(v) ==
  {v.k[i] : i \in {j \in 1..Len(v.k) :
                     /\ v.k[j] # RefKey
                     /\ \A c \in 1..Len(v.k[j]) : v.k[j][c] # "/"
                     /\ v.k[j] \notin DeferredKeys(Template(v))
                     /\ Member(Template(v), v.k[j]) = Undef}}

\* C14: override fragments are resolved.  A resolvable reference that is an
\* override value of a ref-bearing mapping is expanded in the result,
\* exactly like the same reference in a mapping without ref.
OverridesResolved ==
  outcome = "ok" =>
    \A p \in MemberSites :
      ExpandsMapping(p[1]) =>
        \A k \in FreshKeys(p[1]) :
          Resolvable(k, Member(p[1], k)) =>
            Member(Member(result, p[2]), k)
              = Member(AloneCall(k, Member(p[1], k)).result, k)

\* The override values are in the result as they are written.
OverridesAsWritten ==
  outcome = "ok" =>
    \A p \in MemberSites :
      ExpandsMapping(p[1]) =>
        \A k \in FreshKeys(p[1]) :
          Member(Member(result, p[2]), k) = Member(p[1], k)

\* The input of the last call names the trigger of an ignore rule.
IgnoreUses(key) ==
  /\ Member(rules, key).t = "arr"
  /\ Member(rules, key).e[1] = Str(TaskIgnore)
  /\ key \in Strings(input)
IgnoreReturns == \E i \in 1..Len(rules.k) : IgnoreUses(rules.k[i])

\* C15: no aliasing with the Schema.  No mapping or sequence of the tree
\* resolveRefs returns is the same object as a mapping or sequence inside
\* the schema the caller supplied, for every route by which a value
\* arrives: a reference, a ref expansion, a deferred reference, and the
\* tasks iterate, join, ignore and if.
NoAliasing ==
  (pc = "returned" /\ outcome = "ok" /\ how = "schema") => ~shared

\* The same for the calls whose input names no trigger of an ignore rule.
NoAliasingElse ==
  (pc = "returned" /\ how = "schema" /\ ~IgnoreReturns) => ~shared

\* C20: relative references are suppressed while a template is fetched.
\* When a ref-bearing mapping is expanded while a Context is in scope (it
\* is a field of a "." block), the relative references of the template's
\* own "." block are resolved against the template's merged object and
\* never against the enclosing Context.
SuppressedWithin == outcome = "ok" => DeferredSee(BlockSites, NotOnScalar)

\* ------------------------------------------------------------------
\* Sequences (line 157).

\* The sequences the last call walked on its way, each with what the call
\* made of it: the input itself and its member a.
SequenceSites ==
  IF outcome # "ok" \/ how # "schema" THEN {}
  ELSE {p \in {<<input, result>>,
               <<Member(input, Key("a")), Member(result, Key("a"))>>} :
          p[1].t = "arr"}

\* The resolutions of the elements of a sequence, each resolved on its own
\* against the schema and the rules of the last call.
ElementResolutions(seq) ==
  [i \in 1..Len(seq.e) |-> Call(seq.e[i], given, rules, "schema")]
AllResolved(rs) == \A i \in 1..Len(rs) : rs[i].outcome = "ok"
NoneSequence(rs) == \A i \in 1..Len(rs) : rs[i].result.t # "arr"
SplicedResolutions(rs) == ArrCell(Spliced([i \in 1..Len(rs) |-> rs[i].result]))

\* C22 as stated: a sequence resolves to its elements' resolutions in
\* order, those that are sequences spliced in, and the output is as long as
\* the input exactly when no element resolves to a sequence.
SequenceLengthExact ==
  \A p \in SequenceSites :
    /\ AllResolved(ElementResolutions(p[1]))
    /\ p[2] = SplicedResolutions(ElementResolutions(p[1]))
    /\ Len(p[2].e) = Len(p[1].e) <=> NoneSequence(ElementResolutions(p[1]))

\* C22, amended: a sequence resolves to its elements' resolutions in order,
\* those that are sequences spliced in; the output is as long as the input
\* when no element resolves to a sequence, and also when those that do
\* resolve to sequences of one element each.
SequenceSpliced ==
  \A p \in SequenceSites :
    /\ AllResolved(ElementResolutions(p[1]))
    /\ p[2] = SplicedResolutions(ElementResolutions(p[1]))
    /\ NoneSequence(ElementResolutions(p[1])) => Len(p[2].e) = Len(p[1].e)

\* A sequence whose first element resolved to a sequence of two elements
\* has been resolved: the two are spliced in before the second element.
SequenceSplicedSeen ==
  /\ outcome = "ok"
  /\ how = "schema"
  /\ input = Arr(<<Str(Abs(<<Key("v"), Key("l")>>)), Num(3)>>)
  /\ result = Arr(<<Num(1), Num(2), Num(3)>>)

\* A sequence with an element that resolved to a sequence of one element
\* has been resolved to a sequence of its own length.
SequenceSameLengthSeen ==
  /\ outcome = "ok"
  /\ how = "schema"
  /\ input.t = "arr"
  /\ result.t = "arr"
  /\ Len(result.e) = Len(input.e)
  /\ ~NoneSequence(ElementResolutions(input))

\* ------------------------------------------------------------------
\* A "." member of a mapping without ref (lines 204-222).

\* loop(o, c): the walk of o with the Context c, against the schema s and
\* the rules r, unsuppressed.
WalkIn(o, s, r, c) ==
  LET back(out) ==
        [outcome |-> out.x,
         result |-> IF out.x = "ok" THEN Reify(out.h, out.v) ELSE Undef]
      run(obj, sch, rul, ctx) ==
        back(Loop(ctx.h, [schema |-> sch.v, rules |-> rul.v], obj.v, ctx.v, FALSE,
                  MaxDepth))
      withRules(obj, sch, rul) == run(obj, sch, rul, Build(rul.h, c))
      withSchema(obj, sch) == withRules(obj, sch, Build(sch.h, r))
      laid(obj) == withSchema(obj, Build(obj.h, s))
  IN laid(Build(<<>>, o))

\* deepMerge(a, b) of two trees.
MergedTrees(a, b) ==
  LET merge(target, source) ==
        Reify(EffectiveDeepMerge(source.h, target.v, <<source.v>>), target.v)
      laid(target) == merge(target, Build(target.h, b))
  IN laid(Build(<<>>, a))

\* The mappings without ref and with a "." member that the last call walked
\* with no Context in scope, each with what the call made of it: the input
\* and its members.
HasOwnBlock(v) == v.t = "obj" /\ KeyPos(v, DotKey) # 0 /\ ~Truthy(Member(v, RefKey))
OwnBlockSites ==
  IF outcome # "ok" THEN {}
  ELSE {p \in {<<input, result>>}
              \cup (IF input.t = "obj" /\ ~HasOwnBlock(input)
                       /\ ~Truthy(Member(input, RefKey))
                    THEN {<<q[1], Member(result, q[2])>> : q \in Places(input)}
                    ELSE {}) :
          HasOwnBlock(p[1])}

\* The siblings of the "." member of v resolved, and the "." member
\* resolved in one pass with them as its Context.
Siblings(v) == ObjCell(RemoveAt(v.k, KeyPos(v, DotKey)), RemoveAt(v.v, KeyPos(v, DotKey)))
SiblingsResolved(v) == Call(Siblings(v), Root, rules, "schema")
BlockResolved(v) == WalkIn(Member(v, DotKey), Root, rules, SiblingsResolved(v).result)
\* v with its "." member as its member i.
Moved(v, i) ==
  ObjCell(InsertAt(Siblings(v).k, i, DotKey),
          InsertAt(Siblings(v).v, i, Member(v, DotKey)))

TaskReturn(key) ==
  LET back(out) ==
        [outcome |-> out.x,
         result |-> IF out.x = "ok" THEN Reify(out.h, out.v) ELSE Undef]
      run(sch, rul) ==
        back(ProcessRules(rul.h, [schema |-> sch.v, rules |-> rul.v], key, MaxDepth))
      laid(sch) == run(sch, Build(sch.h, rules))
  IN laid(Build(<<>>, Root))

\* The scalars of the input that are rule triggers, each with the key its
\* resolution has in the result: the members of the input and the fields
\* of its own block.
TriggerSites ==
  IF input.t # "obj" \/ Truthy(Member(input, RefKey)) THEN {}
  ELSE {p \in Places(input) \cup Places(Member(input, DotKey)) :
          p[1].t = "str" /\ IsDollarRef(p[1].s) /\ IsTrigger(p[1].s)}

\* The last call without its rules.
Unruled == Call(input, Root, NoRules, "schema")

\* C24: a $ scalar that is a rule trigger is replaced by what the rule's
\* task returns, also when the string is a path that resolves; when the
\* task returns undefined the scalar is resolved as a path.
TriggersFirst ==
  \A p \in TriggerSites :
    TaskReturn(p[1].s).outcome = "ok" =>
      IF TaskReturn(p[1].s).result # Undef
      THEN outcome = "ok" /\ Member(result, p[2]) = TaskReturn(p[1].s).result
      ELSE outcome = Unruled.outcome /\ result = Unruled.result

\* A trigger that is a key of the schema too has been replaced by what its
\* task returned, not by the value under the key.
TriggersFirstSeen ==
  /\ outcome = "ok"
  /\ how = "schema"
  /\ given = Library
  /\ rules = AllRules
  /\ input = InPlace(3, RuledBlock)
  /\ Member(result, Key("r")) = Str(<<"d">>)
  /\ Member(Unruled.result, Key("r")) = Num(3)

\* A trigger whose task returned undefined has been resolved as the path
\* it is.
TriggerFallsThroughSeen ==
  /\ outcome = "ok"
  /\ how = "schema"
  /\ given = Library
  /\ rules = AllRules
  /\ input = Obj1(Key("a"), Str(Abs(<<Key("v"), Key("o"), Key("p")>>)))
  /\ TaskReturn(Abs(<<Key("v"), Key("o"), Key("p")>>)).result = Undef
  /\ result = Obj1(Key("a"), Bool(TRUE))

\* ------------------------------------------------------------------
\* The if task (lines 147-148).

\* The rule of a trigger, and the triggers of the input whose rule is an if
\* rule [if, conditionPathRef, foundBranch, defaultBranch].
RuleOf(s) == Member(rules, s)
IfSites == {p \in TriggerSites : RuleOf(p[1].s).e[1] = Str(TaskIf)}
\* The Schema value at the path of the reference c.
SchemaValue(c) == TreeGet(Root, Segments(Substring(c.s, 1)))
\* The resolution of the branch b on its own.
BranchResolved(b) == WalkIn(b, Root, rules, Undef)

\* The path of the reference c runs through no missing value.
ConditionReached(c) ==
  \A n \in 1..(Len(Segments(Substring(c.s, 1))) - 1) :
    TreeGet(Root, SubSeq(Segments(Substring(c.s, 1)), 1, n)) \notin {Undef, Null}
\* What the claim has the rule of the trigger s yield.
IfYield(s) ==
  IF Truthy(SchemaValue(RuleOf(s).e[2]))
  THEN BranchResolved(RuleOf(s).e[3]).result
  ELSE RuleOf(s).e[4]

\* C25: an if rule yields the resolution of foundBranch whenever the value
\* at conditionPathRef is truthy, whatever foundBranch resolves to, and
\* defaultBranch as it is written otherwise.
IfChooses ==
  \A p \in IfSites :
    ConditionReached(RuleOf(p[1].s).e[2]) =>
      outcome = "ok" /\ Member(result, p[2]) = IfYield(p[1].s)

\* The same for the rules whose foundBranch resolves to a truthy value.
IfChoosesElse ==
  \A p \in IfSites :
    ( /\ ConditionReached(RuleOf(p[1].s).e[2])
      /\ Truthy(SchemaValue(RuleOf(p[1].s).e[2])) =>
           Truthy(BranchResolved(RuleOf(p[1].s).e[3]).result) ) =>
      outcome = "ok" /\ Member(result, p[2]) = IfYield(p[1].s)

\* The condition held and foundBranch resolved to 0: the rule yielded
\* defaultBranch.
IfFalsyFoundSeen ==
  /\ outcome = "ok"
  /\ given = Library
  /\ rules = AllRules
  /\ input = Obj1(Key("a"), Str(Abs(<<Key("Z")>>)))
  /\ Truthy(SchemaValue(RuleOf(Abs(<<Key("Z")>>)).e[2]))
  /\ BranchResolved(RuleOf(Abs(<<Key("Z")>>)).e[3]).result = Num(0)
  /\ result = Obj1(Key("a"), Str(<<"n", "o">>))

\* ------------------------------------------------------------------
\* The ignore task (lines 145-146).

\* The triggers of the input whose rule is an ignore rule
\* [ignore, pathRef, fallback].
IgnoreSites ==
  {p \in TriggerSites :
     RuleOf(p[1].s).e[1] = Str(TaskIgnore) /\ Len(RuleOf(p[1].s).e) = 3}
\* What the claim has the rule of the trigger s yield.
IgnoreYield(s) ==
  IF Truthy(SchemaValue(RuleOf(s).e[2])) THEN SchemaValue(RuleOf(s).e[2])
  ELSE RuleOf(s).e[3]

\* C26: an ignore rule yields the Schema value at pathRef when it is
\* truthy, and fallback when the path is missing at any segment or the
\* value is falsy; it never raises.
IgnoreYields ==
  \A p \in IgnoreSites :
    outcome = "ok" /\ Member(result, p[2]) = IgnoreYield(p[1].s)

\* The same for the paths that are missing at their last segment at most.
IgnoreYieldsElse ==
  \A p \in IgnoreSites :
    ConditionReached(RuleOf(p[1].s).e[2]) =>
      outcome = "ok" /\ Member(result, p[2]) = IgnoreYield(p[1].s)

\* An ignore rule whose path is missing at its first segment, with a
\* second segment after it, has raised.
IgnoreRaisedSeen ==
  /\ outcome = "throw"
  /\ given = Library
  /\ rules = AllRules
  /\ input = Obj1(Key("a"), Str(Abs(<<Key("M")>>)))
  /\ RuleOf(Abs(<<Key("M")>>)).e[2] = Str(Abs(<<Key("q"), Key("y")>>))
  /\ TreeGet(Library, <<Key("q")>>) = Undef

\* ------------------------------------------------------------------
\* A $ string with ${...} runs in it (lines 225-252).

\* The strings of the input that start with $ and not with ${, are no
\* triggers and whose lookup fails: the path, which is all that follows
\* the $, misses in its lookup root.  With the key of each.
FailedLookups ==
  {p \in (IF input.t = "obj" /\ ~Truthy(Member(input, RefKey))
             /\ KeyPos(input, DotKey) = 0
          THEN Places(input) ELSE {}) :
     /\ p[1].t = "str"
     /\ ScalarFails(p[1].s, Undef)
     /\ OwnNames(p[1])}
\* A run of the string s has a path that resolves.
RunResolves(s) ==
  \E i \in 1..Len(RunPaths(s, 1)) : ~Misses(RunPaths(s, 1)[i], Undef)

Suffix(s, k) == SubSeq(s, Len(RunRel(<<k>>)) + 1, Len(s))
StartsWithOwnRun(s, k) == StartsWith(s, RunRel(<<k>>))
PlainText(v) == v.t = "str" /\ \A i \in 1..Len(v.s) : v.s[i] # "$"
\* The ref-bearing mappings without overrides that the last call expanded,
\* as <<mapping, key>>: the members of the input, which no Context
\* encloses, and the fields of the input's own block, which the input's
\* other members enclose.
IsBare(v) == v.t = "obj" /\ Expands(v) /\ Len(v.k) = 1
BareMembers ==
  IF input.t = "obj" /\ ~Truthy(Member(input, RefKey)) /\ KeyPos(input, DotKey) = 0
  THEN {p \in Places(input) : IsBare(p[1])}
  ELSE {}
BareEnclosed ==
  IF input.t = "obj" /\ ~Truthy(Member(input, RefKey))
  THEN {p \in Places(Member(input, DotKey)) : IsBare(p[1])}
  ELSE {}
\* Every field x of the template of an expansion among sites that is the
\* text a in the template, and ${./x} followed by the text b in its deferred
\* block, is a followed by b in the result.
OwnFieldsOnce(sites) ==
  \A p \in sites :
    \A i \in 1..Len(Member(Template(p[1]), DotKey).k) :
      LET k == Member(Template(p[1]), DotKey).k[i]
          late == Member(Template(p[1]), DotKey).v[i]
          base == Member(Template(p[1]), k)
      IN ( /\ PlainText(base)
           /\ late.t = "str" /\ StartsWithOwnRun(late.s, k)
           /\ PlainText(Str(Suffix(late.s, k))) ) =>
           /\ outcome = "ok"
           /\ Member(Member(result, p[2]), k) = Str(base.s \o Suffix(late.s, k))

\* C28: a deferred field that interpolates its own same-named base field is
\* substituted exactly once: the template {x: a, ".": {x: "${./x}b"}}
\* expanded through ref has x equal to a followed by b.
OwnFieldOnce == OwnFieldsOnce(BareMembers \cup BareEnclosed)

\* The same for the expansions that no Context encloses.
OwnFieldOnceElse == OwnFieldsOnce(BareMembers)

\* The template X has been expanded with no Context around it: its x is
\* "ab".
OwnFieldOnceSeen ==
  /\ outcome = "ok"
  /\ input = MemberX
  /\ result = Obj(<<Key("X"), Key("a")>>,
                  <<Obj1(Key("x"), Str(<<"a", "b">>)), Obj1(Key("x"), Str(<<"a", "b">>))>>)

\* The template X has been expanded inside the block of a mapping whose x
\* is "OUT": its x is "OUTb".
OwnFieldEnclosedSeen ==
  /\ outcome = "ok"
  /\ input = EnclosedX
  /\ result = Obj(<<Key("X"), Key("x"), Key("i")>>,
                  <<Obj1(Key("x"), Str(<<"a", "b">>)), Str(<<"O", "U", "T">>),
                    Obj1(Key("x"), Str(<<"O", "U", "T", "b">>))>>)

\* A tree that uses no relative reference and no "." key: no string that
\* starts with $./ or holds a ${./ run, as a value or as a key.
RelativeText(s) ==
  \/ StartsWith(s, <<"$", ".", "/">>)
  \/ \E i \in 1..(Len(s) - 3) : SubSeq(s, i, i + 3) = <<"$", "{", ".", "/">>
RECURSIVE NoRelative(_)
NoRelative(tree) ==
  CASE tree.t = "str" -> ~RelativeText(tree.s)
    [] tree.t = "arr" -> \A i \in 1..Len(tree.e) : NoRelative(tree.e[i])
    [] tree.t = "obj" ->
         \A i \in 1..Len(tree.k) :
           /\ tree.k[i] # DotKey /\ ~RelativeText(tree.k[i])
           /\ NoRelative(tree.v[i])
    [] OTHER -> TRUE
\* The last call was made with an input, a schema and rules that are global
\* only.
GlobalOnly ==
  /\ pc \in {"returned", "hung"}
  /\ NoRelative(input) /\ NoRelative(Root) /\ NoRelative(rules)
\* What the basic resolver gives for the last call.
Basic == BasicCall(input, given, rules, how)
\* The ref-bearing mappings of a tree with an override that a walk would
\* change: a string with a $ in it, a sequence or a mapping.
RECURSIVE Walkable(_)
WalkableOverride(tree, i) ==
  /\ tree.k[i] # RefKey
  /\ \/ tree.v[i].t \in {"arr", "obj"}
     \/ tree.v[i].t = "str" /\ ~PlainText(tree.v[i])
Walkable(tree) ==
  CASE tree.t = "arr" -> \E i \in 1..Len(tree.e) : Walkable(tree.e[i])
    [] tree.t = "obj" ->
         \/ /\ Truthy(Member(tree, RefKey))
            /\ \E i \in 1..Len(tree.k) : WalkableOverride(tree, i)
         \/ \E i \in 1..Len(tree.v) : Walkable(tree.v[i])
    [] OTHER -> FALSE

\* C21: for every input, schema and rule set without relative references
\* and "." keys, the extended resolver ends as the basic resolver does and
\* returns the same result.
SubsumesBasic ==
  GlobalOnly => outcome = Basic.outcome /\ result = Basic.result
\* The two resolvers agree when no ref-bearing mapping of the input or of
\* the schema has an override that the walk would change.
SubsumesBasicElse ==
  (GlobalOnly /\ ~Walkable(input) /\ ~Walkable(Root)) =>
    outcome = Basic.outcome /\ result = Basic.result
\* A global-only call that expands a template and resolves a reference.
SubsumesBasicElseSeen ==
  /\ GlobalOnly /\ ~Walkable(input) /\ ~Walkable(Root) /\ how = "schema"
  /\ outcome = "ok" /\ result # input
  /\ rules # NoRules
  /\ \E p \in Places(input) : p[1].t = "obj" /\ Truthy(Member(p[1], RefKey))

\* C3: resolution never throws to the caller: with rules that name only
\* the built-in tasks, no call ends with an exception.
NeverThrows == outcome # "throw"

\* C1: resolveRefs never mutates its input: once a call has ended, the
\* object passed as input is the tree it was when the call was made.
InputUntouched == outcome # "none" => object = input

\* The same for the calls whose schema is not the input object itself.
InputUntouchedApart == outcome # "none" /\ how # "self" => object = input


\* ------------------------------------------------------------------
\* EventHandler: what a dispatch owes to the subscriptions.

\* The wildcard pattern p matches the event name e: a star stands for any
\* run of characters, every other character for itself.
RECURSIVE Glob(_, _)
Glob(p, e) ==
  IF p = <<>> THEN e = <<>>
  ELSE IF Head(p) = "*"
    THEN \E k \in 0..Len(e) : Glob(Tail(p), SubSeq(e, k + 1, Len(e)))
    ELSE e # <<>> /\ Head(e) = Head(p) /\ Glob(Tail(p), Tail(e))
\* A subscription to s is one to the event e, directly or by a pattern.
Reaches(s, e) == IF IncludesStar(s) THEN Glob(s, e) ELSE s = e
\* How many subscriptions of the callback under the id reach the event.
RECURSIVE Copies(_, _)
Copies(bag, ts) ==
  IF ts = {} THEN 0
  ELSE LET t == CHOOSE x \in ts : TRUE IN bag[t] + Copies(bag, ts \ {t})
Owed(e, f, id) ==
  Copies(subscribed,
         {t \in DOMAIN subscribed : t[2] = f /\ t[3] = id /\ Reaches(t[1], e)})
\* How many times the last dispatch called the callback with the data
\* followed by the id.
Called(f, id) ==
  Cardinality({i \in 1..Len(dispatched.calls) :
                 dispatched.calls[i]
                   = [callback |-> f, args |-> dispatched.data \o <<id>>]})

\* C16: dispatch reaches every subscriber.  After any sequence of
\* subscribe, unsubscribe and dispatch calls, dispatch(e, ...data) calls
\* every callback that is subscribed at that time to e, directly or by a
\* wildcard pattern that matches e, with the data followed by the id of
\* its subscription, and returns the answers of the calls it made.
DispatchReachesAll ==
  dispatched # NoDispatch =>
    /\ \A f \in Callbacks, id \in Ids :
         Owed(dispatched.event, f, id) > 0 => Called(f, id) > 0
    /\ dispatched.returned
         = [i \in 1..Len(dispatched.calls) |-> Answer(dispatched.calls[i])]

\* C17: unsubscribe takes effect.  After unsubscribe(s, id) no later
\* dispatch calls a callback that was subscribed to s under the id: every
\* call a dispatch makes is owed to a subscription that reaches the event
\* and has not been unsubscribed, whether or not the event was dispatched
\* and cached before.
UnsubscribeHolds ==
  dispatched # NoDispatch =>
    \A f \in Callbacks, id \in Ids :
      Called(f, id) <= Owed(dispatched.event, f, id)

\* A dispatch of an event came after the unsubscribe of a wildcard pattern
\* that matches it, whose subscription the cache held for the event, and
\* called the callbacks left without calling the unsubscribed one.
UnsubscribeSeen ==
  /\ dispatched # NoDispatch /\ dispatched.calls # <<>>
  /\ \E r \in removed :
       /\ IncludesStar(r.s) /\ dispatched.event \in r.cached
       /\ Called(r.callback, r.id) = 0

\* ------------------------------------------------------------------
\* FetchQueue: requests made while an equal one is pending.

\* The members of the options as a set, no options being none.
MembersOf(options) ==
  IF options = Undef THEN {}
  ELSE {<<options.k[i], options.v[i]>> : i \in 1..Len(options.k)}
\* Two promises ask for an equal (url, options).
EqualRequest(p, q) ==
  p.url = q.url /\ MembersOf(p.options) = MembersOf(q.options)
\* Two promises ask for the same url with options of the same JSON text.
SameText(p, q) == createHash(p.url, p.options) = createHash(q.url, q.options)
\* Every promise made while a pending one was, in the given sense, for the
\* same request is in the state of that one: pending with it, or settled
\* with the outcome of the same call of the fetch function.
Shares(same(_, _)) ==
  \A q \in 1..Len(promises) :
    \A p \in promises[q].during :
      same(promises[p], promises[q]) => promises[q].state = promises[p].state

\* C18: FetchQueue deduplicates concurrent requests.  While a request with
\* a given (url, options) is queued or in flight, a further addRequest
\* with an equal (url, options) causes no further call of the fetch
\* function, and all these promises settle with the outcome, the same
\* response or the same error, of that one call.
Deduplicates == Shares(EqualRequest)

\* The same for the requests whose url is the same and whose options have
\* the same JSON text.
DeduplicatesSameText == Shares(SameText)

\* ------------------------------------------------------------------
\* deepMerge: what a call owes to the fixer configured.

\* The fixer answers for a source given as a tree.
AnswersFor(fix, source) ==
  \/ fix = "always"
  \/ fix = "forX" /\ source.t = "obj" /\ Member(source, Key("x")) # Undef
\* The merge of the source s into the target t in which the fixer's answer
\* stands wherever the fixer answers for the two values to be merged, and
\* the values are merged key by key wherever it does not.
RECURSIVE Wanted(_, _, _)
RECURSIVE WantedKeys(_, _, _)
Wanted(fix, t, s) ==
  IF AnswersFor(fix, s) THEN Replacement
  ELSE IF t.t = "obj" /\ s.t = "obj" THEN WantedKeys(fix, t, s)
  ELSE t
WantedKeys(fix, t, s) ==
  IF s.k = <<>> THEN t
  ELSE LET k == Head(s.k)
           into == IF Truthy(Member(t, k)) THEN Member(t, k) ELSE EmptyObj
       IN WantedKeys(fix,
                     IF Head(s.v).t = "obj"
                     THEN With(t, k, Wanted(fix, into, Head(s.v)))
                     ELSE With(t, k, Head(s.v)),
                     ObjCell(Tail(s.k), Tail(s.v)))
RECURSIVE WantedAll(_, _, _)
WantedAll(fix, t, sources) ==
  IF sources = <<>> THEN t
  ELSE WantedAll(fix, Wanted(fix, t, Head(sources)), Tail(sources))
\* The fixer answers for some pair of values the merge comes to.
RECURSIVE AnswersWithin(_, _)
AnswersWithin(fix, s) ==
  \/ AnswersFor(fix, s)
  \/ s.t = "obj" /\ \E i \in 1..Len(s.v) : AnswersWithin(fix, s.v[i])

\* A deepMerge call that ran with the fixers in scope has the fixer's
\* replacement wherever the fixer answered, has left no fixer configured,
\* and merged as without a fixer when none was configured.
OneShotFor(scope) ==
  (merged.x # "none" /\ merged.config \in scope) =>
    /\ merged.x = "ok" =>
         merged.result = WantedAll(merged.config, merged.target, merged.sources)
    /\ useConfig = NoFixer

\* C19: the deepMerge fixer is one-shot.  A fixer installed with
\* deepMerge.setConfig is consulted by the next deepMerge call, whose
\* result is the fixer's replacement whenever the fixer returns a value
\* other than undefined, and no fixer is configured once that call has
\* ended, so that later deepMerge calls merge normally.
OneShot == OneShotFor(Fixers \cup {NoFixer})

\* The same for the fixers that answer for every pair of values or for
\* none, and do not throw.
OneShotElse == OneShotFor({"always", "never", NoFixer})

\* The same for the calls that return and in which the fixer answers for
\* no value below the sources themselves.
OneShotAtTop ==
  (merged.x = "ok"
     /\ \A i \in 1..Len(merged.sources) :
          \A j \in 1..Len(merged.sources[i].v) :
            ~AnswersWithin(merged.config, merged.sources[i].v[j])) =>
    /\ merged.x = "ok" =>
         merged.result = WantedAll(merged.config, merged.target, merged.sources)
    /\ useConfig = NoFixer

\* A call without a fixer gives what the merge without the fixer's branch
\* gives.
MergesNormally ==
  (merged.x # "none" /\ merged.config = NoFixer) =>
    LET b == BuildAll(<<>>, <<merged.target>> \o merged.sources, <<>>)
    IN merged.result
         = Reify(DeepMerge(b.h, Head(b.v), Tail(b.v)).h, Head(b.v))

\* ------------------------------------------------------------------
\* FetchQueue: liveness.

\* The promise i that addRequest returned is settled.
IsSettled(i) == Len(promises) >= i /\ promises[i].state # <<"pending">>
\* No request is left in the queue while the queue is not running.
NoneLeft == ~isRunning => queue = <<>>

\* C29: when every call of the fetch function settles in the end, every
\* promise addRequest returned settles in the end, whenever it was added;
\* and no request is left in the queue while the queue is not running.
EverySettles ==
  /\ []NoneLeft
  /\ \A i \in 1..MaxRequests : (Len(promises) >= i) ~> IsSettled(i)

\* A request added while an earlier one was in flight, and one added after
\* the queue had emptied, have both been settled, and the queue has stopped
\* with nothing in it.
EverySettlesSeen ==
  /\ Len(promises) = 3
  /\ \A i \in 1..3 : IsSettled(i)
  /\ promises[2].during = {1}
  /\ promises[2].url # promises[1].url
  /\ promises[3].during = {}
  /\ ~isRunning
  /\ queue = <<>>

\* ------------------------------------------------------------------
\* FetchQueue: one request at a time, in the order of arrival.

\* The promises the call c of the fetch function has settled, and those it
\* serves: the ones it has settled, or, when it has settled none yet, the
\* ones that wait in the entry of its request.
SettledBy(c) ==
  {i \in 1..Len(promises) :
     promises[i].state # <<"pending">> /\ promises[i].state[2] = c}
Waiting(e) == {e.resolve[i] : i \in 1..Len(e.resolve)}
EntryOf(c) == QueueAt(queue, createHash(calls[c].url, calls[c].options))
ServedBy(c) ==
  IF SettledBy(c) # {} THEN SettledBy(c)
  ELSE IF EntryOf(c) # 0 THEN Waiting(queue[EntryOf(c)])
  ELSE {}
\* The calls in flight: made, and no promise settled with their outcome yet.
InFlight == {c \in 1..Len(calls) : SettledBy(c) = {}}
\* When the request of a call, or of an entry, arrived: its first promise.
Least(S) == CHOOSE i \in S : \A j \in S : i <= j
\* The entries that no call serves yet.
Unserved == {n \in 1..Len(queue) : \A c \in InFlight : EntryOf(c) # n}

\* C30: at every moment at most one call of the fetch function is in
\* flight, and the requests are started in the order in which the first
\* addRequest of each arrived: a call made later serves a request that
\* arrived later, and a request not started yet arrived after every one
\* that was started.
OneAtATimeInOrder ==
  /\ Cardinality(InFlight) <= 1
  /\ \A c \in 1..Len(calls) : ServedBy(c) # {}
  /\ \A c \in 1..Len(calls) : \A b \in 1..(c - 1) :
       Least(ServedBy(b)) < Least(ServedBy(c))
  /\ \A n \in Unserved : \A c \in 1..Len(calls) :
       Least(ServedBy(c)) < Least(Waiting(queue[n]))

\* Three distinct requests arrived while the first was in flight; the
\* second is now in flight, after the first was settled, and the third
\* waits.
OneAtATimeSeen ==
  /\ Len(promises) = 3
  /\ Len(calls) = 2
  /\ Len(queue) = 2
  /\ promises[1].state = <<"fulfilled", 1>>
  /\ promises[3].during = {1, 2}
  /\ InFlight = {2}
  /\ ServedBy(2) = {2}
  /\ Unserved # {}

====
